---- MODULE Spec2Model ----
(***************************************************************************)
(* Active-learning curation engine of FeedbackMemoSite (feedbackmodel):    *)
(* the Label Store (ActiveLearningMetadata), the Labeling Orchestrator     *)
(* (HumanLabeling.label_batch over LLMOracle.label), the Confidence Model  *)
(* (ModelConfidenceUpdater), the sampling strategies, the Stopping         *)
(* Controller and the curation loop (run_active_learning).                 *)
(*                                                                         *)
(* Conventions.  A Python dict is a function whose domain is its key set   *)
(* (the empty dict is <<>>); a list is a sequence; None is the string      *)
(* "None" where the other values are strings and the empty tuple where     *)
(* they are records.  Confidences are tenths (10 is 1.0).  Kappa values    *)
(* are exact fractions <<num, den>>.  An exception leaving a call is       *)
(* recorded in call.raised; the call's partial effects stay in the state.  *)
(***************************************************************************)
EXTENDS Integers, Sequences, FiniteSets, TLC

VARIABLES records, is_fitted, vectorizer, models, call,
          config, prediction_history, stable_counter, last_per_dim_kappa,
          update_result, qual_streak,
          q_records, q_n, q_lambda, q_result,
          pc, iteration, strategy, batch_indices, metadata_json,
          last_predictions, loaded, snapshots

vars == <<records, is_fitted, vectorizer, models, call,
          config, prediction_history, stable_counter, last_per_dim_kappa,
          update_result, qual_streak,
          q_records, q_n, q_lambda, q_result,
          pc, iteration, strategy, batch_indices, metadata_json,
          last_predictions, loaded, snapshots>>

storeVars == <<records, call>>
modelVars == <<is_fitted, vectorizer, models>>
stopVars  == <<config, prediction_history, stable_counter, last_per_dim_kappa,
          update_result, qual_streak>>
queryVars == <<q_records, q_n, q_lambda, q_result>>
persistVars == <<last_predictions, loaded, snapshots>>
loopVars  == <<pc, iteration, strategy, batch_indices, metadata_json, persistVars>>

(***************************************************************************)
(* Bounds                                                                  *)
(***************************************************************************)
NumRecords == 2      \* pool size of the Label Store
NumDims    == 2      \* how many of DIMENSIONS are in use
MaxBatch   == 2      \* longest index list handed to a batch call

DIMENSIONS == <<"severity", "urgency", "impact">>
Dims       == SubSeq(DIMENSIONS, 1, IF NumDims < 3 THEN NumDims ELSE 3)
DimSet     == {Dims[i] : i \in 1..Len(Dims)}
Indices    == 0..(NumRecords - 1)
None       == "None"
MODEL_ID   == "weak_llm_v1"

Min(a, b) == IF a < b THEN a ELSE b
Max(a, b) == IF a > b THEN a ELSE b

(***************************************************************************)
(* dimension_label_proposal.py                                             *)
(***************************************************************************)
\* LabelValue(v): the wrapper dataclass; a bare string is lv = FALSE.
LabelValue(v) == [lv |-> TRUE, value |-> v]
RawLabel(v)   == [lv |-> FALSE, value |-> v]

RAGExample(text) == [text |-> text, priority |-> 10]

DimensionLabelProposal(labels, confidences, rationale, evidence, source, model_id) ==
    [labels |-> labels, confidences |-> confidences, rationale |-> rationale,
     evidence |-> evidence, source |-> source, model_id |-> model_id]

(***************************************************************************)
(* seeds/seed_factory.py                                                   *)
(***************************************************************************)
LABEL_CHOICES ==
    [d \in {"severity", "urgency", "impact"} |->
        IF d = "impact" THEN <<"medium", "high">> ELSE <<"low", "medium", "high">>]

seeded_seed_proposal(idx) ==
    DimensionLabelProposal(
        [d \in DimSet |-> LabelValue(LABEL_CHOICES[d][(idx % Len(LABEL_CHOICES[d])) + 1])],
        [d \in DimSet |-> 10],
        [d \in DimSet |-> "initial seed"],
        <<>>, "seed", "seed")

(***************************************************************************)
(* metadata/metadata.py: ActiveLearningMetadata                            *)
(***************************************************************************)
\* __post_init__: one record per text; the text of record idx is idx itself.
NewRecord(idx, seedIdx) ==
    [seed_proposal |-> IF idx \in seedIdx THEN <<seeded_seed_proposal(idx)>> ELSE <<>>,
     labeled      |-> FALSE,
     labels       |-> <<>>,
     confidences  |-> <<>>,
     rationale    |-> <<>>,
     evidence     |-> <<>>,
     source       |-> None,
     model_id     |-> None,
     label_source |-> None,
     confidence_source |-> None]

PostInit(seedIdx) == [idx \in Indices |-> NewRecord(idx, seedIdx)]

unlabeled_indices(recs) == {i \in DOMAIN recs : ~recs[i].labeled}
labeled_indices(recs)   == {i \in DOMAIN recs : recs[i].labeled}
done(recs)              == \A i \in DOMAIN recs : recs[i].labeled

\* apply_labels that toggles the flag instead of setting it.
apply_labels_toggling(recs, idx, labels, confidences, rationale, evidence, source, model_id) ==
    [recs EXCEPT ![idx] =
        [@ EXCEPT !.labels = labels, !.confidences = confidences,
                  !.rationale = rationale, !.evidence = evidence,
                  !.source = source, !.model_id = model_id,
                  !.labeled = ~@, !.label_source = "seed"]]

\* apply_labels: sets every field as given (rationale/evidence default to
\* empty), flips labeled and stamps label_source "seed".
apply_labels(recs, idx, labels, confidences, rationale, evidence, source, model_id) ==
    [recs EXCEPT ![idx] =
        [@ EXCEPT !.labels = labels, !.confidences = confidences,
                  !.rationale = rationale, !.evidence = evidence,
                  !.source = source, !.model_id = model_id,
                  !.labeled = TRUE, !.label_source = "seed"]]

\* get_labels_as_dict: unwraps LabelValue, passes bare values through.
get_labels_as_dict(recs, idx) ==
    [k \in DOMAIN recs[idx].labels |-> recs[idx].labels[k].value]

\* The body of mark_as_labeled's loop for one (idx, proposal) pair.
MarkOne(recs, idx, proposal) ==
    [recs EXCEPT ![idx] =
        [@ EXCEPT !.labeled = TRUE,
                  !.labels = [k \in DOMAIN proposal.labels |->
                                 LabelValue(proposal.labels[k].value)],
                  !.confidences = proposal.confidences,
                  !.rationale = proposal.rationale,
                  !.evidence = proposal.evidence,
                  !.source = proposal.source,
                  !.model_id = proposal.model_id]]

\* A loop that gives every index the first proposal of the list.
RECURSIVE MarkFromFirstProposal(_, _, _, _)
MarkFromFirstProposal(recs, indices, proposals, k) ==
    IF k > Min(Len(indices), Len(proposals)) THEN recs
    ELSE MarkFromFirstProposal(MarkOne(recs, indices[k], proposals[1]),
                               indices, proposals, k + 1)

\* mark_as_labeled: for idx, proposal in zip(indices, proposals); zip stops
\* at the shorter list.
RECURSIVE MarkFrom(_, _, _, _)
MarkFrom(recs, indices, proposals, k) ==
    IF k > Min(Len(indices), Len(proposals)) THEN recs
    ELSE MarkFrom(MarkOne(recs, indices[k], proposals[k]), indices, proposals, k + 1)

mark_as_labeled(recs, indices, proposals) == MarkFrom(recs, indices, proposals, 1)

\* _make_json_serializable on a labels dict, a proposal and a record: a
\* LabelValue becomes its value, a proposal a dict whose evidence list is
\* taken as it is, a list is converted item by item and any other object
\* (a RAGExample among them) is returned unchanged.
SerializableLabels(labels) ==
    [d \in DOMAIN labels |-> labels[d].value]
SerializableProposal(p) ==
    [labels |-> SerializableLabels(p.labels), confidences |-> p.confidences,
     rationale |-> p.rationale, evidence |-> p.evidence,
     source |-> p.source, model_id |-> p.model_id]
_make_json_serializable(r) ==
    [r EXCEPT !.labels = SerializableLabels(@),
              !.seed_proposal = IF @ = <<>> THEN <<>>
                                ELSE <<SerializableProposal(@[1])>>]

\* The file metadata.json: absent, written with the records json.dump wrote,
\* or truncated (opened for writing, then left by an exception).
NoFile == [state |-> "absent"]
WrittenFile(recs) == [state |-> "written", records |-> recs]
TruncatedFile == [state |-> "truncated"]

\* json.dump raises TypeError on an object that is no dict, list, string,
\* number, bool or None: here the RAGExample items of an evidence list.
JsonDumpable(r) ==
    /\ r.evidence = <<>>
    /\ r.seed_proposal # <<>> => r.seed_proposal[1].evidence = <<>>

\* save(path): the file is opened with mode "w" before json.dump runs.
save(recs) ==
    LET serializable_records == [i \in DOMAIN recs |-> _make_json_serializable(recs[i])] IN
    IF \A i \in DOMAIN recs : JsonDumpable(serializable_records[i])
    THEN [raised |-> None, file |-> WrittenFile(serializable_records)]
    ELSE [raised |-> "TypeError", file |-> TruncatedFile]

\* A file whose top level is a JSON object: each of its keys "records" and
\* "prediction_history" is absent (<<>>) or holds a value (<<v>>).
ObjectFile(records_field, history_field) ==
    [state |-> "object", records |-> records_field,
     prediction_history |-> history_field]

\* r.get(key, default) on a record of the file.
RecordGet(r, key, default) == IF key \in DOMAIN r THEN r[key] ELSE default

\* The body of load's loop: a proposal is rebuilt from the record's own
\* labels (wrapped in LabelValue) and stored under seed_proposal; the record
\* itself is kept as json.load returned it, its labels being bare strings.
LoadRecord(r) ==
    LET labels == RecordGet(r, "labels", <<>>)
        proposal ==
            IF labels = <<>> THEN <<>>
            ELSE <<DimensionLabelProposal(
                     [k \in DOMAIN labels |-> LabelValue(labels[k])],
                     RecordGet(r, "confidences", <<>>),
                     RecordGet(r, "rationale", <<>>),
                     RecordGet(r, "evidence", <<>>),
                     RecordGet(r, "source", None),
                     RecordGet(r, "model_id", None))>>
    IN [k \in DOMAIN r \cup {"seed_proposal"} |->
           IF k = "seed_proposal" THEN proposal
           ELSE IF k = "labels" THEN [d \in DOMAIN r.labels |-> RawLabel(r.labels[d])]
           ELSE r[k]]

\* What load(path) gives: the exception that left it, or the store returned
\* (its records and the snapshots of its prediction history).
NotLoaded == [raised |-> None, returned |-> FALSE, records |-> <<>>, snapshots |-> <<>>]
LoadRaises(exc) == [raised |-> exc, returned |-> FALSE, records |-> <<>>, snapshots |-> <<>>]
LoadReturns(recs, snaps) ==
    [raised |-> None, returned |-> TRUE, records |-> recs, snapshots |-> snaps]

\* load(path): open raises on a missing file and json.load on an empty one;
\* a top-level list is the records with an empty history, a top-level object
\* gives payload.get("records", []) and payload.get("prediction_history", []).
load(file) ==
    CASE file.state = "absent" -> LoadRaises("FileNotFoundError")
      [] file.state = "truncated" -> LoadRaises("JSONDecodeError")
      [] file.state = "written" ->
            LoadReturns([i \in DOMAIN file.records |-> LoadRecord(file.records[i])], <<>>)
      [] file.state = "object" ->
            LET records_json == IF file.records = <<>> THEN <<>> ELSE file.records[1]
                history == IF file.prediction_history = <<>> THEN <<>>
                           ELSE file.prediction_history[1]
            IN LoadReturns([i \in DOMAIN records_json |-> LoadRecord(records_json[i])],
                           history)

\* PredictionHistory.add_snapshot.
add_snapshot(snaps, predictions_by_item) == Append(snaps, predictions_by_item)

(***************************************************************************)
(* The oracle's raw text and json.loads                                    *)
(*                                                                         *)
(* A raw response is text that json.loads rejects (json = FALSE) or the    *)
(* text of a JSON document doc.  A document is an object (a dict with the  *)
(* six proposal keys, each absent or holding a JSON value) or a            *)
(* non-object (list, string, number, null).  A JSON value is tagged with   *)
(* its type t.                                                             *)
(***************************************************************************)
Absent     == [t |-> "absent"]
JMap(m)    == [t |-> "map", v |-> m]
JList(s)   == [t |-> "list", v |-> s]
JStr(s)    == [t |-> "string", v |-> s]
JNum       == [t |-> "number"]

JObject(labels, confidences, rationale, evidence, source, model_id) ==
    [t |-> "object", labels |-> labels, confidences |-> confidences,
     rationale |-> rationale, evidence |-> evidence, source |-> source,
     model_id |-> model_id]

RawText(doc) == [json |-> TRUE, doc |-> doc]
NotJson      == [json |-> FALSE]
EmptyObject  == JObject(Absent, Absent, Absent, Absent, Absent, Absent)

\* json.loads: raises on text that is not JSON, else returns the document.
json_loads(raw) ==
    IF raw.json THEN [ok |-> TRUE, doc |-> raw.doc] ELSE [ok |-> FALSE]

\* dict.get(key, default) on a parsed object.
Get(field, default) == IF field.t = "absent" THEN default ELSE field

(***************************************************************************)
(* labeling/llm_labeling.py: LLMOracle.label                               *)
(***************************************************************************)
\* outcome.failed: self.model.respond raised (error or timeout); the except
\* branch returns the text "{}".
LLMOracle_label(outcome) ==
    IF outcome.failed THEN RawText(EmptyObject) ELSE outcome.raw

(***************************************************************************)
(* labeling/human_labeling.py: HumanLabeling.label_batch                   *)
(***************************************************************************)
\* The evidence loop: keeps the dict items that carry a text.
RECURSIVE ParseEvidenceItems(_)
ParseEvidenceItems(items) ==
    IF items = <<>> THEN <<>>
    ELSE LET ex == Head(items)
             rest == ParseEvidenceItems(Tail(items))
         IN IF ex.t # "map" THEN rest
            ELSE IF "text" \notin DOMAIN ex.v THEN rest
            ELSE <<RAGExample(ex.v["text"])>> \o rest

\* One pass of the for-loop body after llm_call_fn returned raw:
\*   r = "skip"  : json.loads raised, warning logged, continue
\*   r = "raise" : an exception leaves label_batch
\*   r = "ok"    : a proposal is appended
LabelItem(raw, model_id) ==
    LET parsed == json_loads(raw) IN
    IF ~parsed.ok THEN [r |-> "skip"]
    ELSE LET doc == parsed.doc IN
    IF doc.t # "object" THEN [r |-> "raise", exc |-> "AttributeError"]
    ELSE LET ev == Get(doc.evidence, JList(<<>>)) IN
    IF ev.t \in {"number", "null"} THEN [r |-> "raise", exc |-> "TypeError"]
    ELSE LET evidence == IF ev.t = "list" THEN ParseEvidenceItems(ev.v) ELSE <<>>
             labels_dict == Get(doc.labels, JMap(<<>>))
             confidences_dict == Get(doc.confidences, JMap(<<>>))
             rationale_dict == Get(doc.rationale, JMap(<<>>))
             source == Get(doc.source, JStr("unknown"))
             proposal_model_id == Get(doc.model_id, JStr(model_id))
         IN
    IF labels_dict.t # "map" THEN [r |-> "raise", exc |-> "AttributeError"]
    ELSE [r |-> "ok",
          proposal |-> DimensionLabelProposal(
              [k \in DOMAIN labels_dict.v |-> LabelValue(labels_dict.v[k])],
              confidences_dict.v, rationale_dict.v, evidence,
              source.v, proposal_model_id.v)]

\* The for-loop over feedback_indices from position k with the proposals
\* collected so far; outcomes[k] is what the oracle does for position k.
RECURSIVE CollectProposals(_, _, _, _)
CollectProposals(outcomes, model_id, k, proposals) ==
    IF k > Len(outcomes) THEN [raised |-> None, proposals |-> proposals]
    ELSE LET res == LabelItem(LLMOracle_label(outcomes[k]), model_id) IN
         CASE res.r = "skip"  -> CollectProposals(outcomes, model_id, k + 1, proposals)
           [] res.r = "raise" -> [raised |-> res.exc, proposals |-> proposals]
           [] res.r = "ok"    -> CollectProposals(outcomes, model_id, k + 1,
                                                  Append(proposals, res.proposal))

\* label_batch: collect, then one mark_as_labeled(feedback_indices, proposals).
label_batch(recs, feedback_indices, outcomes, model_id) ==
    LET c == CollectProposals(outcomes, model_id, 1, <<>>) IN
    IF c.raised # None THEN [raised |-> c.raised, records |-> recs, nprop |-> Len(c.proposals)]
    ELSE [raised |-> None,
          records |-> mark_as_labeled(recs, feedback_indices, c.proposals),
          nprop |-> Len(c.proposals)]

(***************************************************************************)
(* model/model_confidence_updater.py: ModelConfidenceUpdater               *)
(*                                                                         *)
(* The TF-IDF vectorizer is represented by the set of texts it was last    *)
(* fitted on, a per-dimension classifier by the texts and the classes it   *)
(* was trained on.  The probabilities MultinomialNB computes are not       *)
(* modelled: predict_proba's maximum is any value of ModelConfs.           *)
(***************************************************************************)
ModelConfs == {6, 8}

NewModel == [is_fitted  |-> [d \in DimSet |-> FALSE],
             vectorizer |-> [fitted |-> FALSE, texts |-> {}],
             models     |-> [d \in DimSet |-> [texts |-> {}, classes |-> {}]]]

\* Records of the labeled set that carry a label for dim.
DimRecords(recs, dim) ==
    {i \in labeled_indices(recs) : dim \in DOMAIN recs[i].labels}

\* The loop of fit over Dims[k..]; m is the model state so far.
RECURSIVE FitFrom(_, _, _)
FitFrom(recs, m, k) ==
    IF k > Len(Dims) THEN [raised |-> None, m |-> m]
    ELSE LET dim == Dims[k]
             dim_records == DimRecords(recs, dim)
         IN
         IF dim_records = {} THEN FitFrom(recs, m, k + 1)
         ELSE LET m1 == [m EXCEPT !.vectorizer = [fitted |-> TRUE, texts |-> dim_records]] IN
              IF \E i \in dim_records : ~recs[i].labels[dim].lv
              THEN [raised |-> "AttributeError", m |-> m1]
              ELSE LET values == {recs[i].labels[dim].value : i \in dim_records} IN
                   IF Cardinality(values) < 2 THEN FitFrom(recs, m1, k + 1)
                   ELSE FitFrom(recs,
                                [m1 EXCEPT !.models[dim] = [texts |-> dim_records,
                                                            classes |-> values],
                                           !.is_fitted[dim] = TRUE],
                                k + 1)

fit(recs, m) ==
    IF labeled_indices(recs) = {} THEN [raised |-> None, m |-> m]
    ELSE FitFrom(recs, m, 1)

\* The loop of update_unlabeled_confidences over Dims[k..].  probs[i][dim] is
\* max(predict_proba) for text i; differ says whether two different training
\* text sets give feature matrices of different width, which predict_proba
\* rejects with a ValueError.
RECURSIVE UpdateFrom(_, _, _, _, _)
UpdateFrom(recs, m, probs, differ, k) ==
    IF k > Len(Dims) THEN [raised |-> None, records |-> recs]
    ELSE LET dim == Dims[k] IN
         IF ~m.is_fitted[dim] THEN UpdateFrom(recs, m, probs, differ, k + 1)
         ELSE IF differ /\ m.models[dim].texts # m.vectorizer.texts
              THEN [raised |-> "ValueError", records |-> recs]
              ELSE UpdateFrom(
                     [i \in DOMAIN recs |->
                        IF recs[i].labeled THEN recs[i]
                        ELSE [recs[i] EXCEPT
                                !.confidences =
                                    [d \in DOMAIN recs[i].confidences \cup {dim} |->
                                        IF d = dim THEN probs[i][dim]
                                        ELSE recs[i].confidences[d]],
                                !.confidence_source = "multinomial_nb"]],
                     m, probs, differ, k + 1)

\* An update that writes a confidence for every dimension on every record.
update_all_confidences(recs, m, probs, differ) ==
    [raised |-> None,
     records |-> [i \in DOMAIN recs |->
                    [recs[i] EXCEPT !.confidences = [d \in DimSet |-> probs[i][d]],
                                    !.confidence_source = "multinomial_nb"]]]

update_unlabeled_confidences(recs, m, probs, differ) ==
    IF ~(\E d \in DimSet : m.is_fitted[d]) THEN [raised |-> None, records |-> recs]
    ELSE IF unlabeled_indices(recs) = {} THEN [raised |-> None, records |-> recs]
    ELSE UpdateFrom(recs, m, probs, differ, 1)

\* The class a fitted dimension predicts for text i: the texts alternate
\* between two of its classes, starting with either.
PickUp(classes, i) ==
    LET c1 == CHOOSE c \in classes : TRUE
        c2 == CHOOSE c \in classes : c # c1
    IN IF i % 2 = 0 THEN c1 ELSE c2
PickDown(classes, i) == PickUp(classes, i + 1)

\* predict(texts) for the texts of `items`: vectorizer.transform raises
\* NotFittedError on a vectorizer that was never fitted; a fitted dimension
\* predicts one of the classes it was trained on (up chooses which for text
\* i), an unfitted one None.
predict(m, items, up, differ) ==
    IF items = {} THEN [raised |-> None, preds |-> [d \in DimSet |-> <<>>]]
    ELSE IF ~m.vectorizer.fitted
    THEN [raised |-> "NotFittedError", preds |-> [d \in DimSet |-> <<>>]]
    ELSE IF differ /\ \E d \in DimSet :
                         m.is_fitted[d] /\ m.models[d].texts # m.vectorizer.texts
    THEN [raised |-> "ValueError", preds |-> [d \in DimSet |-> <<>>]]
    ELSE [raised |-> None,
          preds |-> [d \in DimSet |->
                       [i \in items |-> IF m.is_fitted[d]
                                        THEN IF up THEN PickUp(m.models[d].classes, i)
                                             ELSE PickDown(m.models[d].classes, i)
                                        ELSE None]]]

Model == [is_fitted |-> is_fitted, vectorizer |-> vectorizer, models |-> models]

\* No call of predict yet.
NoPredictions == [raised |-> None, preds |-> <<>>]

(***************************************************************************)
(* query/query_strategies.py                                               *)
(*                                                                         *)
(* A strategy sees, of each record, labeled, confidences, embedding and    *)
(* mc_probs.  An embedding is None (<<>>) or a one-component vector <<x>>; *)
(* mc_probs is None (<<>>) or MC samples, represented by <<s>> where s is  *)
(* the BALD score (predictive entropy minus expected entropy) they give.   *)
(* np.argsort's default kind is not stable, so a strategy's result is any  *)
(* of the orders argsort may return: each operator below is the set of     *)
(* possible results; an exception is the result raised # None.             *)
(***************************************************************************)
NoResult == [raised |-> None, selected |-> <<>>]
Returns(sel) == [raised |-> None, selected |-> sel]
Raises(exc) == [raised |-> exc, selected |-> <<>>]

\* What a strategy reads of a Label Store record, which has no embedding
\* and no mc_probs key.
RecordView(r) == [labeled |-> r.labeled, confidences |-> r.confidences,
                  embedding |-> <<>>, mc_probs |-> <<>>]
StoreView(recs) == [i \in DOMAIN recs |-> RecordView(recs[i])]

Unlabeled(recs) == {i \in DOMAIN recs : ~recs[i].labeled}
Labeled(recs)   == {i \in DOMAIN recs : recs[i].labeled}

Perms(S) == {p \in [1..Cardinality(S) -> S] :
                \A a, b \in 1..Cardinality(S) : a # b => p[a] # p[b]}
Take(p, n) == SubSeq(p, 1, Min(n, Len(p)))

\* np.argsort(key): the permutations of the indices with non-decreasing key.
ArgSorts(key) ==
    {p \in Perms(DOMAIN key) :
        \A a \in 1..(Len(p) - 1) : key[p[a]] <= key[p[a + 1]]}

MinOf(S) == CHOOSE x \in S : \A y \in S : x <= y
MaxOf(S) == CHOOSE x \in S : \A y \in S : x >= y
Abs(x) == IF x < 0 THEN -x ELSE x

\* The i-th smallest element of a set of indices (i from 1).
RECURSIVE Nth(_, _)
Nth(S, i) == IF i = 1 THEN MinOf(S) ELSE Nth(S \ {MinOf(S)}, i - 1)

\* least_confidence_sampling: score is the minimum confidence, 0.0 when the
\* record has none; a labeled record gets np.inf, here Inf.
Inf == 1000
LCScore(r) ==
    IF r.labeled THEN Inf
    ELSE IF r.confidences = <<>> THEN 0
    ELSE MinOf({r.confidences[d] : d \in DOMAIN r.confidences})

least_confidence_sampling(recs, n) ==
    LET model_confidences == [i \in DOMAIN recs |-> LCScore(recs[i])] IN
    {Returns(Take(p, n)) : p \in ArgSorts(model_confidences)}

\* bald_scores before normalisation: the scores of the unlabeled records that
\* have MC samples, in index order, are written to the first unlabeled
\* indices (unlabeled_indices[:len(bald_scores_array)]); the rest stay 0.
WithMC(recs) == {i \in Unlabeled(recs) : recs[i].mc_probs # <<>>}
BaldRaw(recs, i) ==
    LET k == Cardinality({j \in Unlabeled(recs) : j <= i}) IN
    IF i \in Unlabeled(recs) /\ k <= Cardinality(WithMC(recs))
    THEN recs[Nth(WithMC(recs), k)].mc_probs[1]
    ELSE 0

\* bald_sampling: labeled records score -1.0; dividing by max + 1e-12 (a
\* positive number, the scores being >= 0) keeps the order.
bald_sampling(recs, n) ==
    IF Unlabeled(recs) = {} THEN {Returns(<<>>)}
    ELSE IF WithMC(recs) = {} THEN {Returns(<<>>)}
    ELSE LET neg_bald == [i \in DOMAIN recs |->
                             IF recs[i].labeled THEN 1 ELSE -BaldRaw(recs, i)] IN
         {Returns(Take(p, n)) : p \in ArgSorts(neg_bald)}

\* Embedding with the np.zeros(1) default.
Emb(r) == IF r.embedding = <<>> THEN 0 ELSE r.embedding[1]
MinDistance(recs, u) == MinOf({Abs(Emb(recs[u]) - Emb(recs[l])) : l \in Labeled(recs)})

\* Lines 84-95 of greedy_coreset_sampling, with labeled records present:
\* np.argpartition(-min_distances, n-1) raises a ValueError when n-1 is not a
\* valid position; otherwise the result is n unlabeled indices of largest
\* distance, by non-increasing distance.
CoresetTopN(recs, n) ==
    IF n - 1 >= Cardinality(Unlabeled(recs)) THEN {Raises("ValueError")}
    ELSE {Returns(s) : s \in
            {t \in [1..n -> Unlabeled(recs)] :
                /\ \A a, b \in 1..n : a # b => t[a] # t[b]
                /\ \A a \in 1..(n - 1) :
                      MinDistance(recs, t[a]) >= MinDistance(recs, t[a + 1])
                /\ \A u \in Unlabeled(recs) \ {t[a] : a \in 1..n} :
                      \A a \in 1..n : MinDistance(recs, u) <= MinDistance(recs, t[a])}}

\* greedy_coreset_sampling without the cold-start branch: dist_matrix has no
\* column and its min over axis 1 raises a ValueError.
greedy_coreset_sampling_no_cold_start(recs, n) ==
    IF Unlabeled(recs) = {} THEN {Returns(<<>>)}
    ELSE IF Labeled(recs) = {} THEN {Raises("ValueError")}
    ELSE CoresetTopN(recs, n)

\* greedy_coreset_sampling: at cold start the first n unlabeled indices.
greedy_coreset_sampling(recs, n) ==
    IF Unlabeled(recs) = {} THEN {Returns(<<>>)}
    ELSE IF Labeled(recs) = {}
    THEN {Returns([k \in 1..Min(n, Cardinality(Unlabeled(recs))) |->
                      Nth(Unlabeled(recs), k)])}
    ELSE CoresetTopN(recs, n)

\* hybrid_coreset_bald_sampling; lambda_t in hundredths.  With cmax and bmax
\* the normalising maxima (1 stands for a zero maximum, where the quotient
\* is 0 anyway), combined_scores * 100 * cmax * bmax is HybridScore.
Clip(x, lo, hi) == IF x < lo THEN lo ELSE IF x > hi THEN hi ELSE x

HybridScore(recs, lam, i) ==
    LET dists == {MinDistance(recs, u) : u \in Unlabeled(recs)}
        cmax == IF Labeled(recs) = {} THEN 1 ELSE Max(MaxOf(dists), 1)
        braw == {BaldRaw(recs, j) : j \in DOMAIN recs}
        bmax == IF WithMC(recs) = {} THEN 1 ELSE Max(MaxOf(braw), 1)
        coreset == IF Labeled(recs) = {} THEN 1 ELSE MinDistance(recs, i)
        bald == IF WithMC(recs) = {} THEN 0 ELSE BaldRaw(recs, i)
    IN IF recs[i].labeled THEN -(100 * cmax * bmax)
       ELSE lam * coreset * bmax + (100 - lam) * bald * cmax

hybrid_coreset_bald_sampling(recs, n, lambda_t) ==
    LET lam == Clip(lambda_t, 0, 100) IN
    IF Unlabeled(recs) = {} THEN {Returns(<<>>)}
    ELSE LET neg_combined == [i \in DOMAIN recs |-> -HybridScore(recs, lam, i)] IN
         {Returns(Take(p, n)) : p \in ArgSorts(neg_combined)}

(***************************************************************************)
(* utils/stopping.py: StoppingConfig, StoppingController                   *)
(*                                                                         *)
(* A snapshot maps each stop-set item to a dict dimension -> label.  A     *)
(* kappa is the exact fraction <<num, den>> with den > 0, NaN is <<0, 0>>; *)
(* thresholds are hundredths.                                              *)
(***************************************************************************)
StoppingConfig(min_iterations, patience, window_size, mean_thr, floor_thr) ==
    [min_iterations |-> min_iterations, patience |-> patience,
     window_size |-> window_size, mean_kappa_threshold |-> mean_thr,
     floor_kappa_threshold |-> floor_thr]

\* run_labeling_session.py: the controller the loop constructs.
RunConfig == StoppingConfig(2, 2, 3, 90, 80)

NaN == <<0, 0>>
IsNaN(k) == k[2] = 0
NotStopped == [raised |-> None, stopped |-> FALSE]

FracAdd(a, b) == <<a[1] * b[2] + b[1] * a[2], a[2] * b[2]>>
RECURSIVE FracSum(_)
FracSum(ks) == IF ks = <<>> THEN <<0, 1>> ELSE FracAdd(Head(ks), FracSum(Tail(ks)))
\* np.mean of a non-empty list of kappas.
FracMean(ks) == LET t == FracSum(ks) IN <<t[1], t[2] * Len(ks)>>
\* k < thr/100 and k >= thr/100.
FracBelow(k, thr) == k[1] * 100 < thr * k[2]
FracAtLeast(k, thr) == ~FracBelow(k, thr)

\* [snap[idx][dim] for idx in sorted(snap.keys()) if dim in snap[idx]]
RECURSIVE LabelSeqOver(_, _, _)
LabelSeqOver(snap, dim, S) ==
    IF S = {} THEN <<>>
    ELSE LET i == MinOf(S) IN
         (IF dim \in DOMAIN snap[i] THEN <<snap[i][dim]>> ELSE <<>>)
            \o LabelSeqOver(snap, dim, S \ {i})
LabelSeq(snap, dim) == LabelSeqOver(snap, dim, DOMAIN snap)

SeqValues(y) == {y[i] : i \in 1..Len(y)}

\* _safe_kappa: NaN for short or unequal sequences and for a single class on
\* either side; sorted() of a label set that mixes None with strings raises a
\* TypeError, which the except ValueError clause does not catch; otherwise
\* cohen_kappa_score, which is (n*agree - S) / (n*n - S) with S the sum over
\* the classes of the product of the two class counts.
_safe_kappa(y1, y2) ==
    IF Len(y1) < 2 \/ Len(y1) # Len(y2) THEN [raised |-> None, k |-> NaN]
    ELSE LET labels_1 == SeqValues(y1)
             labels_2 == SeqValues(y2)
             labels == labels_1 \cup labels_2
         IN
         IF Cardinality(labels_1) < 2 \/ Cardinality(labels_2) < 2
         THEN [raised |-> None, k |-> NaN]
         ELSE IF None \in labels /\ labels # {None}
         THEN [raised |-> "TypeError", k |-> NaN]
         ELSE LET n == Len(y1)
                  agree == Cardinality({i \in 1..n : y1[i] = y2[i]})
                  count(y, c) == Cardinality({i \in 1..n : y[i] = c})
                  RECURSIVE SumProd(_)
                  SumProd(C) == IF C = {} THEN 0
                                ELSE LET c == CHOOSE x \in C : TRUE IN
                                     count(y1, c) * count(y2, c) + SumProd(C \ {c})
                  S == SumProd(labels)
              IN [raised |-> None, k |-> <<n * agree - S, n * n - S>>]

\* The kappas of one dimension over the adjacent pairs window[i], window[i+1]
\* from pair i on, NaN results left out; raised if a pair raises.
RECURSIVE PairKappas(_, _, _)
PairKappas(window, dim, i) ==
    IF i >= Len(window) THEN [raised |-> None, ks |-> <<>>]
    ELSE LET r == _safe_kappa(LabelSeq(window[i], dim), LabelSeq(window[i + 1], dim))
             rest == PairKappas(window, dim, i + 1)
         IN IF r.raised # None THEN [raised |-> r.raised, ks |-> <<>>]
            ELSE IF rest.raised # None THEN rest
            ELSE [raised |-> None,
                  ks |-> (IF IsNaN(r.k) THEN <<>> ELSE <<r.k>>) \o rest.ks]

\* history[-window_size:]
LastWindow(history, window_size) ==
    IF window_size = 0 THEN history
    ELSE SubSeq(history, Len(history) - window_size + 1, Len(history))

\* DimLoop with a veto that returns without resetting the counter.
RECURSIVE DimLoopKeepsCounter(_, _, _, _)
DimLoopKeepsCounter(cfg, kappas, k, st) ==
    IF k > Len(Dims) THEN st
    ELSE LET dim == Dims[k]
             ks == kappas[dim].ks
         IN IF ks # <<>>
            THEN LET mean_k == FracMean(ks)
                     st1 == [st EXCEPT !.last[dim] = mean_k,
                                       !.dim_means = Append(@, mean_k)]
                 IN IF FracBelow(mean_k, cfg.floor_kappa_threshold)
                    THEN [st1 EXCEPT !.vetoed = TRUE]
                    ELSE DimLoopKeepsCounter(cfg, kappas, k + 1, st1)
            ELSE DimLoopKeepsCounter(cfg, kappas, k + 1, [st EXCEPT !.last[dim] = NaN])

\* The loop over per_dim_kappas from dimension k with the state st so far
\* (counter, last kappas, dim_means); vetoed when a mean is below the floor.
RECURSIVE DimLoop(_, _, _, _)
DimLoop(cfg, kappas, k, st) ==
    IF k > Len(Dims) THEN st
    ELSE LET dim == Dims[k]
             ks == kappas[dim].ks
         IN IF ks # <<>>
            THEN LET mean_k == FracMean(ks)
                     st1 == [st EXCEPT !.last[dim] = mean_k,
                                       !.dim_means = Append(@, mean_k)]
                 IN IF FracBelow(mean_k, cfg.floor_kappa_threshold)
                    THEN [st1 EXCEPT !.counter = 0, !.vetoed = TRUE]
                    ELSE DimLoop(cfg, kappas, k + 1, st1)
            ELSE DimLoop(cfg, kappas, k + 1, [st EXCEPT !.last[dim] = NaN])

\* StoppingController.update on the controller state c =
\* [history, counter, last]; the result carries the new state.
update(cfg, c, predictions) ==
    LET history == Append(c.history, predictions)
        c1 == [c EXCEPT !.history = history]
    IN
    IF Len(history) < cfg.window_size
    THEN [raised |-> None, stopped |-> FALSE, c |-> c1]
    ELSE LET window == LastWindow(history, cfg.window_size)
             kappas == [d \in DimSet |-> PairKappas(window, d, 1)]
         IN
         IF \E d \in DimSet : kappas[d].raised # None
         THEN [raised |-> "TypeError", stopped |-> FALSE, c |-> c1]
         ELSE LET st == DimLoop(cfg, kappas, 1,
                                [counter |-> c.counter, last |-> c.last,
                                 dim_means |-> <<>>, vetoed |-> FALSE])
                  c2 == [c1 EXCEPT !.last = st.last]
              IN
              IF st.vetoed
              THEN [raised |-> None, stopped |-> FALSE,
                    c |-> [c2 EXCEPT !.counter = st.counter]]
              ELSE IF st.dim_means = <<>>
              THEN [raised |-> None, stopped |-> FALSE, c |-> c2]
              ELSE LET overall_mean == FracMean(st.dim_means)
                       counter == IF FracAtLeast(overall_mean, cfg.mean_kappa_threshold)
                                  THEN c.counter + 1 ELSE 0
                   IN [raised |-> None, stopped |-> counter >= cfg.patience,
                       c |-> [c2 EXCEPT !.counter = counter]]

\* __init__: empty history, counter 0, every last kappa NaN.
NewController == [history |-> <<>>, counter |-> 0, last |-> [d \in DimSet |-> NaN]]

\* A reset that clears the history and leaves the counter.
reset_keeping_counter(c) == [c EXCEPT !.history = <<>>, !.last = [d \in DimSet |-> NaN]]

\* reset(): clears history, counter and last kappas.
reset(c) == [history |-> <<>>, counter |-> 0, last |-> [d \in DimSet |-> NaN]]

Controller == [history |-> prediction_history, counter |-> stable_counter,
               last |-> last_per_dim_kappa]

(***************************************************************************)
(* Inputs of the Label Store calls                                         *)
(***************************************************************************)
\* Index lists without repetition, as the sampling strategies return them.
RECURSIVE IndexLists(_, _)
IndexLists(I, n) ==
    IF n = 0 THEN {<<>>}
    ELSE LET shorter == IndexLists(I, n - 1) IN
         shorter \cup {Append(s, i) : s \in {t \in shorter : Len(t) = n - 1},
                                      i \in I}

\* Duplicate-free index lists over I of at most n indices.
Batches(I, n) == {s \in IndexLists(I, Min(n, Cardinality(I))) :
                    \A a, b \in 1..Len(s) : a # b => s[a] # s[b]}

\* Raw oracle responses: text that is not JSON; a JSON list; the empty
\* object; labels of the wrong type; evidence of the wrong type; a partial
\* proposal; a full proposal whose evidence list has a non-dict item, an
\* item without text and a usable item.
FullResponse ==
    RawText(JObject(JMap([d \in DimSet |-> "high"]), JMap([d \in DimSet |-> 9]),
                    JMap([d \in DimSet |-> "because"]),
                    JList(<<JStr("x"), JMap(<<>>), JMap([f \in {"text"} |-> "similar"])>>),
                    JStr("llm"), JStr("test-model")))

PartialResponse ==
    RawText(JObject(JMap([d \in {Dims[1]} |-> "low"]), Absent, Absent, Absent,
                    Absent, Absent))

RawResponses ==
    { NotJson,
      RawText(JList(<<>>)),
      RawText(EmptyObject),
      RawText(JObject(JList(<<>>), Absent, Absent, Absent, Absent, Absent)),
      RawText(JObject(JMap([d \in DimSet |-> "high"]), Absent, Absent, JNum,
                      Absent, Absent)),
      PartialResponse,
      FullResponse }

OracleOutcomes ==
    {[failed |-> TRUE, raw |-> NotJson]} \cup
    {[failed |-> FALSE, raw |-> r] : r \in RawResponses}

\* Well-formed proposals a caller passes to mark_as_labeled.
TestProposal ==
    DimensionLabelProposal([d \in {Dims[1]} |-> LabelValue("high")],
                           [d \in {Dims[1]} |-> 9], <<>>, <<>>, "test", "test-model")

ProposalInputs == {TestProposal}

RECURSIVE SeqsUpTo(_, _)
SeqsUpTo(S, n) ==
    IF n = 0 THEN {<<>>}
    ELSE LET shorter == SeqsUpTo(S, n - 1) IN
         shorter \cup {Append(s, x) : s \in {t \in shorter : Len(t) = n - 1}, x \in S}

\* Label dicts a caller passes to apply_labels (bare strings, as the tests do).
ApplyLabelInputs == {[d \in DimSet |-> RawLabel("high")]}

\* What the last call was and how it ended: the exception that left it, whether
\* its two list arguments differed in length, and the batch indices (unlabeled
\* before the call) whose response was unparseable / whose oracle call failed.
Call(op, raised, mismatch, unparsed, failed) ==
    [op |-> op, raised |-> raised, mismatch |-> mismatch,
     unparsed |-> unparsed, failed |-> failed]

\* Seed index sets the store is constructed with.
SeedSets == {{}, {0}}

(***************************************************************************)
(* scripts/run_labeling_session.py: the strategy of a round                *)
(***************************************************************************)
CORESET_WARMUP_ITERS == 2
LAMBDA_DECAY == 15          \* 0.15, in hundredths
MIN_LAMBDA == 0

Strategies == {"least_confidence", "coreset", "bald", "hybrid"}

\* compute_lambda without the max with MIN_LAMBDA.
compute_lambda_unfloored(it) == 100 - (it - CORESET_WARMUP_ITERS) * LAMBDA_DECAY

\* compute_lambda, in hundredths.
compute_lambda(it) == Max(MIN_LAMBDA, 100 - (it - CORESET_WARMUP_ITERS) * LAMBDA_DECAY)

select_batch_indices(recs, it, strat, batch_size) ==
    CASE strat = "least_confidence" -> least_confidence_sampling(StoreView(recs), batch_size)
      [] strat = "coreset" -> greedy_coreset_sampling(StoreView(recs), batch_size)
      [] strat = "bald" -> bald_sampling(StoreView(recs), batch_size)
      [] strat = "hybrid" ->
            IF it <= CORESET_WARMUP_ITERS
            THEN greedy_coreset_sampling(StoreView(recs), batch_size)
            ELSE hybrid_coreset_bald_sampling(StoreView(recs), batch_size, compute_lambda(it))
      [] OTHER -> {Raises("ValueError")}

\* max(predict_proba) per text and dimension, as tried: the same everywhere,
\* or alternating with the index.
ProbInputs(I) ==
    {[i \in I |-> [d \in DimSet |-> c]] : c \in ModelConfs} \cup
    {[i \in I |-> [d \in DimSet |-> IF i % 2 = 0 THEN 6 ELSE 8]],
     [i \in I |-> [d \in DimSet |-> IF i % 2 = 0 THEN 8 ELSE 6]]}

\* The other components at rest.
IdleStop ==
    /\ config = RunConfig /\ prediction_history = <<>> /\ stable_counter = 0
    /\ last_per_dim_kappa = [d \in DimSet |-> NaN]
    /\ update_result = NotStopped /\ qual_streak = 0

IdleStore ==
    /\ records = PostInit({})
    /\ is_fitted = NewModel.is_fitted
    /\ vectorizer = NewModel.vectorizer
    /\ models = NewModel.models
    /\ call = Call("init", None, FALSE, {}, {})

IdlePersist == last_predictions = NoPredictions /\ loaded = NotLoaded /\ snapshots = <<>>

IdleQuery == q_records = <<>> /\ q_n = 0 /\ q_lambda = 0 /\ q_result = NoResult


(***************************************************************************)
(* Label Store driven by arbitrary calls                                   *)
(***************************************************************************)
MaxCalls == 5       \* calls of one session on the store and the model

\* The loop variables across a call made from outside the loop: in a session
\* on the store and the model (pc = "model") iteration counts the calls made,
\* of which there are at most MaxCalls.
OutsideLoop ==
    /\ pc = "model" => iteration < MaxCalls
    /\ iteration' = IF pc = "model" THEN iteration + 1 ELSE iteration
    /\ UNCHANGED <<pc, strategy, batch_indices, metadata_json, persistVars>>

Init ==
    /\ \E seedIdx \in SeedSets : records = PostInit(seedIdx)
    /\ is_fitted = NewModel.is_fitted
    /\ vectorizer = NewModel.vectorizer
    /\ models = NewModel.models
    /\ call = Call("init", None, FALSE, {}, {})
    /\ IdleStop /\ IdleQuery
    /\ pc = "api" /\ iteration = 0 /\ strategy = None /\ batch_indices = <<>> /\ metadata_json = NoFile /\ IdlePersist

\* run_labeling_session.py 178-181: metadata.mark_as_labeled([idx], [seed]).
LabelSeed ==
    \E idx \in DOMAIN records :
        /\ records[idx].seed_proposal # <<>>
        /\ records' = mark_as_labeled(records, <<idx>>, records[idx].seed_proposal)
        /\ call' = Call("seed", None, FALSE, {}, {})
        /\ UNCHANGED <<modelVars, stopVars, queryVars>>
        /\ OutsideLoop

ApplyLabels ==
    \E idx \in DOMAIN records, labels \in ApplyLabelInputs :
        /\ records' = apply_labels(records, idx, labels,
                                   [d \in DOMAIN labels |-> 10], <<>>, <<>>, None, None)
        /\ call' = Call("apply_labels", None, FALSE, {}, {})
        /\ UNCHANGED <<modelVars, stopVars, queryVars>>
        /\ OutsideLoop

\* maxlen: the longest list passed; observe: whether call records the details
\* of the arguments.
MarkAsLabeled(maxlen, observe) ==
    \E indices \in Batches(DOMAIN records, maxlen),
       proposals \in SeqsUpTo(ProposalInputs, maxlen) :
        /\ records' = mark_as_labeled(records, indices, proposals)
        /\ call' = Call("mark_as_labeled", None,
                        observe /\ Len(indices) # Len(proposals), {}, {})
        /\ UNCHANGED <<modelVars, stopVars, queryVars>>
        /\ OutsideLoop

Unparseable(o) == ~o.failed /\ ~json_loads(o.raw).ok
OracleFailed(o) == o.failed

\* Indices of the batch, unlabeled before the call, whose outcome is one of
\* `which`.
BatchIndicesWhere(recs, indices, outcomes, which) ==
    {indices[k] : k \in {j \in 1..Len(indices) :
                            ~recs[indices[j]].labeled /\ outcomes[j] \in which}}

LabelBatch(outcomeSet, maxlen, observe) ==
    \E indices \in Batches(DOMAIN records, maxlen) :
    \E outcomes \in [1..Len(indices) -> outcomeSet] :
        LET res == label_batch(records, indices, outcomes, MODEL_ID) IN
        /\ records' = res.records
        /\ call' = IF observe
                   THEN Call("label_batch", res.raised, FALSE,
                             BatchIndicesWhere(records, indices, outcomes,
                                               {o \in outcomeSet : Unparseable(o)}),
                             BatchIndicesWhere(records, indices, outcomes,
                                               {o \in outcomeSet : OracleFailed(o)}))
                   ELSE Call("label_batch", res.raised, FALSE, {}, {})
        /\ UNCHANGED <<modelVars, stopVars, queryVars>>
        /\ OutsideLoop

Next ==
    \/ LabelSeed
    \/ ApplyLabels
    \/ MarkAsLabeled(MaxBatch, TRUE)
    \/ LabelBatch(OracleOutcomes, MaxBatch, TRUE)

Spec == Init /\ [][Next]_vars

(***************************************************************************)
(* Label Store, Confidence Model and strategies driven by arbitrary calls  *)
(***************************************************************************)
ModelPool == 3      \* feedback texts in the store

\* Oracle outcomes of the calls: a failed call, text that is not JSON, a full
\* proposal.
ModelOutcomes ==
    {[failed |-> TRUE, raw |-> NotJson], [failed |-> FALSE, raw |-> NotJson],
     [failed |-> FALSE, raw |-> FullResponse]}

InitModel ==
    /\ \E seedIdx \in SeedSets :
          records = [idx \in 0..(ModelPool - 1) |-> NewRecord(idx, seedIdx)]
    /\ is_fitted = NewModel.is_fitted
    /\ vectorizer = NewModel.vectorizer
    /\ models = NewModel.models
    /\ call = Call("init", None, FALSE, {}, {})
    /\ IdleStop /\ IdleQuery
    /\ pc = "model" /\ iteration = 0 /\ strategy = None /\ batch_indices = <<>> /\ metadata_json = NoFile /\ IdlePersist

Fit ==
    LET res == fit(records, Model) IN
    /\ is_fitted' = res.m.is_fitted
    /\ vectorizer' = res.m.vectorizer
    /\ models' = res.m.models
    /\ call' = Call("fit", res.raised, FALSE, {}, {})
    /\ UNCHANGED <<records, stopVars, queryVars>>
    /\ OutsideLoop

UpdateUnlabeledConfidences ==
    \E probs \in ProbInputs(DOMAIN records), differ \in BOOLEAN :
        LET res == update_unlabeled_confidences(records, Model, probs, differ) IN
        /\ records' = res.records
        /\ call' = Call("update_unlabeled_confidences", res.raised, FALSE, {}, {})
        /\ UNCHANGED <<modelVars, stopVars, queryVars>>
        /\ OutsideLoop

\* A strategy called on the store's records, in a warm-up round or after it.
Sample ==
    \E s \in Strategies, it \in {1, CORESET_WARMUP_ITERS + 1}, n \in 1..MaxBatch :
    \E res \in select_batch_indices(records, it, s, n) :
        /\ call' = Call("select_batch_indices", res.raised, FALSE, {}, {})
        /\ UNCHANGED <<records, modelVars, stopVars, queryVars>>
        /\ OutsideLoop

NextModel ==
    \/ LabelSeed
    \/ ApplyLabels
    \/ MarkAsLabeled(1, FALSE)
    \/ LabelBatch(ModelOutcomes, 1, FALSE)
    \/ Fit
    \/ UpdateUnlabeledConfidences
    \/ Sample

SpecModel == InitModel /\ [][NextModel]_vars

(***************************************************************************)
(* Stopping Controller driven by arbitrary snapshots                       *)
(***************************************************************************)
StopSize   == 3      \* items of the stop set
MaxUpdates == 4      \* snapshots fed to one controller

StopItems == 0..(StopSize - 1)

\* Label sequences over the stop set: a..ab, ab..b, b..ba and a..a.
PatAAB == [i \in StopItems |-> IF i = StopSize - 1 THEN "b" ELSE "a"]
PatABB == [i \in StopItems |-> IF i = 0 THEN "a" ELSE "b"]
PatBBA == [i \in StopItems |-> IF i = StopSize - 1 THEN "a" ELSE "b"]
PatAAA == [i \in StopItems |-> "a"]
PatBBB == [i \in StopItems |-> "b"]

\* The snapshot that gives dimension Dims[k] the pattern p and the other
\* dimensions the pattern q.
Snapshot(k, p, q) ==
    [i \in StopItems |-> [d \in DimSet |-> IF d = Dims[k] THEN p[i] ELSE q[i]]]

\* Dims[1] predicted None for item 0 / missing for item 0.
SnapshotWithNone ==
    [i \in StopItems |-> [d \in DimSet |->
        IF d = Dims[1] /\ i = 0 THEN None ELSE PatAAB[i]]]
SnapshotMissingDim ==
    [i \in StopItems |-> [d \in (IF i = 0 THEN DimSet \ {Dims[1]} ELSE DimSet) |->
        PatAAB[i]]]
\* No prediction at all for item 0.
SnapshotMissingItem ==
    [i \in StopItems |-> [d \in (IF i = 0 THEN {} ELSE DimSet) |-> PatAAB[i]]]

SnapshotInputs ==
    { Snapshot(1, PatAAB, PatAAB), Snapshot(1, PatABB, PatAAB),
      Snapshot(Len(Dims), PatABB, PatAAB), Snapshot(1, PatBBA, PatAAB),
      Snapshot(1, PatAAA, PatAAA), Snapshot(1, PatAAB, PatAAA),
      Snapshot(1, PatAAA, PatAAB), Snapshot(1, PatBBB, PatAAB),
      SnapshotWithNone, SnapshotMissingDim, SnapshotMissingItem }

StoppingConfigs ==
    { RunConfig, StoppingConfig(1, 2, 2, 90, 30), StoppingConfig(1, 1, 2, 99, 95),
      StoppingConfig(4, 1, 2, 90, 80) }

\* Whether the update that appended the last snapshot of history was a
\* qualifying round: a full window, some dimension with a kappa, no
\* dimension's mean below the floor, and the mean over the dimensions at
\* least mean_kappa_threshold.
RECURSIVE DimMeans(_, _)
DimMeans(kappas, k) ==
    IF k > Len(Dims) THEN <<>>
    ELSE (IF kappas[Dims[k]].ks # <<>> THEN <<FracMean(kappas[Dims[k]].ks)>> ELSE <<>>)
            \o DimMeans(kappas, k + 1)

Qualifying(cfg, history) ==
    /\ Len(history) >= cfg.window_size
    /\ LET window == LastWindow(history, cfg.window_size)
           kappas == [d \in DimSet |-> PairKappas(window, d, 1)]
           means == DimMeans(kappas, 1)
       IN /\ \A d \in DimSet : kappas[d].raised = None
          /\ means # <<>>
          /\ \A i \in 1..Len(means) : FracAtLeast(means[i], cfg.floor_kappa_threshold)
          /\ FracAtLeast(FracMean(means), cfg.mean_kappa_threshold)

InitStop ==
    /\ config \in StoppingConfigs
    /\ prediction_history = <<>>
    /\ stable_counter = 0
    /\ last_per_dim_kappa = [d \in DimSet |-> NaN]
    /\ update_result = NotStopped
    /\ qual_streak = 0
    /\ IdleStore /\ IdleQuery
    /\ pc = "stop" /\ iteration = 0 /\ strategy = None /\ batch_indices = <<>> /\ metadata_json = NoFile /\ IdlePersist

Update ==
    /\ Len(prediction_history) < MaxUpdates
    /\ \E predictions \in SnapshotInputs :
          LET res == update(config, Controller, predictions) IN
          /\ prediction_history' = res.c.history
          /\ stable_counter' = res.c.counter
          /\ last_per_dim_kappa' = res.c.last
          /\ update_result' = [raised |-> res.raised, stopped |-> res.stopped]
          /\ qual_streak' = IF Qualifying(config, res.c.history)
                            THEN qual_streak + 1 ELSE 0
          /\ call' = Call("update", res.raised, FALSE, {}, {})
    /\ UNCHANGED <<config, records, modelVars, queryVars, loopVars>>

Reset ==
    /\ prediction_history # <<>>
    /\ prediction_history' = reset(Controller).history
    /\ stable_counter' = reset(Controller).counter
    /\ last_per_dim_kappa' = reset(Controller).last
    /\ update_result' = NotStopped
    /\ qual_streak' = 0
    /\ call' = Call("reset", None, FALSE, {}, {})
    /\ UNCHANGED <<config, records, modelVars, queryVars, loopVars>>

NextStop == Update \/ Reset

SpecStop == InitStop /\ [][NextStop]_vars

(***************************************************************************)
(* scripts/run_labeling_session.py: run_active_learning                    *)
(*                                                                         *)
(* pc is the place in the function: "while" the loop test, "fit",          *)
(* "update", "select", "label", "predict" the steps of a round, "exit" the *)
(* code after the loop, "done" its end, "crashed" an exception that left   *)
(* the function (call tells which).  q_n holds the batch size of the run.  *)
(***************************************************************************)
MaxIterations == 4      \* rounds of one run
LoopPool == 3           \* feedback texts in the pool of a run
LoopSeedSets == {{}, {0}, {0, 1}}

\* A seeding loop that marks no seed.
MarkSeedsSkipped(recs, S) == recs

\* Lines 171-181 and 208: the store, the seeds marked as labeled, the first fit.
RECURSIVE MarkSeeds(_, _)
MarkSeeds(recs, S) ==
    IF S = {} THEN recs
    ELSE LET idx == MinOf(S) IN
         MarkSeeds(IF recs[idx].seed_proposal # <<>>
                   THEN mark_as_labeled(recs, <<idx>>, recs[idx].seed_proposal)
                   ELSE recs,
                   S \ {idx})

InitLoop ==
    /\ strategy \in Strategies
    /\ q_n \in 1..MaxBatch
    /\ \E seedIdx \in LoopSeedSets :
          LET pool == [idx \in 0..(LoopPool - 1) |-> NewRecord(idx, seedIdx)]
              recs == MarkSeeds(pool, seedIdx)
              m == fit(recs, NewModel).m
          IN /\ records = recs
             /\ is_fitted = m.is_fitted
             /\ vectorizer = m.vectorizer
             /\ models = m.models
    /\ call = Call("init", None, FALSE, {}, {})
    /\ IdleStop
    /\ q_records = <<>> /\ q_lambda = 0 /\ q_result = NoResult
    /\ pc = "while" /\ iteration = 0 /\ batch_indices = <<>> /\ metadata_json = NoFile /\ IdlePersist

\* while not metadata.done(): iteration += 1
LoopTest ==
    /\ pc = "while"
    /\ IF done(records)
       THEN pc' = "exit" /\ UNCHANGED iteration
       ELSE /\ iteration < MaxIterations
            /\ iteration' = iteration + 1
            /\ pc' = "fit"
    /\ UNCHANGED <<records, call, modelVars, stopVars, queryVars, strategy, batch_indices, metadata_json, persistVars>>

LoopFit ==
    /\ pc = "fit"
    /\ LET res == fit(records, Model) IN
       /\ is_fitted' = res.m.is_fitted
       /\ vectorizer' = res.m.vectorizer
       /\ models' = res.m.models
       /\ call' = Call("fit", res.raised, FALSE, {}, {})
       /\ pc' = IF res.raised # None THEN "crashed" ELSE "update"
    /\ UNCHANGED <<records, stopVars, queryVars, iteration, strategy, batch_indices, metadata_json, persistVars>>

LoopUpdate ==
    /\ pc = "update"
    /\ \E probs \in ProbInputs(DOMAIN records), differ \in BOOLEAN :
          LET res == update_unlabeled_confidences(records, Model, probs, differ) IN
          /\ records' = res.records
          /\ call' = Call("update_unlabeled_confidences", res.raised, FALSE, {}, {})
          /\ pc' = IF res.raised # None THEN "crashed" ELSE "select"
    /\ UNCHANGED <<modelVars, stopVars, queryVars, iteration, strategy, batch_indices, metadata_json, persistVars>>

\* select_batch_indices, then `if not batch_indices: break`.
LoopSelect ==
    /\ pc = "select"
    /\ \E res \in select_batch_indices(records, iteration, strategy, q_n) :
          /\ batch_indices' = res.selected
          /\ call' = Call("select_batch_indices", res.raised, FALSE, {}, {})
          /\ pc' = IF res.raised # None THEN "crashed"
                   ELSE IF res.selected = <<>> THEN "exit" ELSE "label"
    /\ UNCHANGED <<records, modelVars, stopVars, queryVars, iteration, strategy,
                   metadata_json, persistVars>>

LoopLabel(outcomeSet) ==
    /\ pc = "label"
    /\ \E outcomes \in [1..Len(batch_indices) -> outcomeSet] :
          LET res == label_batch(records, batch_indices, outcomes, MODEL_ID) IN
          /\ records' = res.records
          /\ call' = Call("label_batch", res.raised, FALSE, {}, {})
          /\ pc' = IF res.raised # None THEN "crashed" ELSE "predict"
    /\ UNCHANGED <<modelVars, stopVars, queryVars, iteration, strategy, batch_indices, metadata_json, persistVars>>

\* Lines 234-256: predict on the test set and on the stop set, the snapshot,
\* stopper.update and the break.
LoopStop ==
    /\ pc = "predict"
    /\ \E up \in BOOLEAN, differ \in BOOLEAN :
          LET stop_preds == predict(Model, StopItems, up, differ)
          IN
          IF stop_preds.raised # None
          THEN /\ call' = Call("predict", stop_preds.raised, FALSE, {}, {})
               /\ pc' = "crashed"
               /\ UNCHANGED stopVars
          ELSE LET stop_snapshot == [i \in StopItems |->
                                       [d \in DimSet |-> stop_preds.preds[d][i]]]
                   res == update(config, Controller, stop_snapshot)
               IN /\ prediction_history' = res.c.history
                  /\ stable_counter' = res.c.counter
                  /\ last_per_dim_kappa' = res.c.last
                  /\ update_result' = [raised |-> res.raised, stopped |-> res.stopped]
                  /\ call' = Call("stopper.update", res.raised, FALSE, {}, {})
                  /\ pc' = IF res.raised # None THEN "crashed"
                           ELSE IF res.stopped THEN "exit" ELSE "while"
                  /\ UNCHANGED <<config, qual_streak>>
    /\ UNCHANGED <<records, modelVars, queryVars, iteration, strategy, batch_indices, metadata_json, persistVars>>

\* Lines 258-261: the code after the loop; metadata.save is the only place
\* where the Label Store is written to disk.
LoopExit ==
    /\ pc = "exit"
    /\ LET res == save(records) IN
       /\ metadata_json' = res.file
       /\ call' = Call("save", res.raised, FALSE, {}, {})
       /\ pc' = IF res.raised # None THEN "crashed" ELSE "done"
    /\ UNCHANGED <<records, modelVars, stopVars, queryVars, iteration, strategy,
                   batch_indices, persistVars>>

NextLoop ==
    \/ LoopTest
    \/ LoopFit
    \/ LoopUpdate
    \/ LoopSelect
    \/ LoopLabel(OracleOutcomes)
    \/ LoopStop
    \/ LoopExit

SpecLoop == InitLoop /\ [][NextLoop]_vars

\* Runs in which every oracle call succeeds and answers with a well-formed
\* proposal.  The function runs on until it returns or an exception leaves
\* it, hence the weak fairness of its steps.
ParseableOutcomes ==
    {[failed |-> FALSE, raw |-> r] : r \in {PartialResponse, FullResponse}}

NextLoopParseable ==
    \/ LoopTest
    \/ LoopFit
    \/ LoopUpdate
    \/ LoopSelect
    \/ LoopLabel(ParseableOutcomes)
    \/ LoopStop
    \/ LoopExit

SpecLoopParseable ==
    InitLoop /\ [][NextLoopParseable]_vars /\ WF_vars(NextLoopParseable)

(***************************************************************************)
(* Properties of the Stopping Controller                                   *)
(***************************************************************************)
\* The dimensions whose mean kappa over the current window is below the floor.
DimsBelowFloor ==
    LET window == LastWindow(prediction_history, config.window_size) IN
    {d \in DimSet :
        LET r == PairKappas(window, d, 1) IN
        /\ r.raised = None /\ r.ks # <<>>
        /\ FracBelow(FracMean(r.ks), config.floor_kappa_threshold)}

UpdateReturned ==
    /\ prediction_history # <<>>
    /\ Len(prediction_history) >= config.window_size
    /\ update_result.raised = None

C4_StoppedIffConsecutive ==
    update_result.stopped <=> (qual_streak >= config.patience)

\* Every item has a label in dimension d in every snapshot fed so far, and
\* the label of every item differs between any two adjacent snapshots.
DisagreesEverywhere(d) ==
    /\ Len(prediction_history) >= 2
    /\ \A k \in 1..Len(prediction_history), i \in StopItems :
          d \in DOMAIN prediction_history[k][i]
    /\ \A k \in 1..(Len(prediction_history) - 1), i \in StopItems :
          prediction_history[k][i][d] # prediction_history[k + 1][i][d]

\* C14: while the snapshots fed disagree on every item for one dimension,
\* update does not return stopped.
C14_DisagreementVetoes ==
    (\E d \in DimSet : DisagreesEverywhere(d)) => ~update_result.stopped

\* The labels (None left out) that snapshot snap holds in dimension d.
DistinctLabels(snap, d) ==
    {snap[i][d] : i \in {j \in DOMAIN snap : d \in DOMAIN snap[j]}} \ {None}

IsOne(k) == ~IsNaN(k) /\ k[1] = k[2]

\* C15: after exactly window_size identical snapshots were fed to a fresh
\* controller, the mean kappa recorded for every dimension in which the
\* snapshot holds at least two distinct labels is 1.0.
C15_IdenticalSnapshotsKappaOne ==
    (/\ Len(prediction_history) = config.window_size
     /\ \A k \in 1..Len(prediction_history) :
           prediction_history[k] = prediction_history[1])
        => \A d \in DimSet :
              Cardinality(DistinctLabels(prediction_history[1], d)) >= 2
                  => IsOne(last_per_dim_kappa[d])

\* C16: update never ends with an exception, whatever the snapshots hold
\* (single labels, label sequences of different lengths, missing or None
\* labels).
C16_UpdateNeverRaises ==
    prediction_history # <<>> => update_result.raised = None

(***************************************************************************)
(* Sampling strategies applied to arbitrary record lists                   *)
(***************************************************************************)
MaxPool == 3      \* longest record list handed to a strategy

QRecord(labeled, confidences, embedding, mc_probs) ==
    [labeled |-> labeled, confidences |-> confidences,
     embedding |-> embedding, mc_probs |-> mc_probs]

ConfidenceInputs ==
    {<<>>, [d \in {Dims[1]} |-> 2], [d \in DimSet |-> IF d = Dims[1] THEN 7 ELSE 5]}

\* The records a strategy is tried on: the fields it reads vary, the others
\* are absent.
QRecords(s) ==
    CASE s = "least_confidence" ->
            {QRecord(l, c, <<>>, <<>>) : l \in BOOLEAN, c \in ConfidenceInputs}
      [] s = "coreset" ->
            {QRecord(l, <<>>, e, <<>>) : l \in BOOLEAN, e \in {<<>>, <<1>>, <<3>>}}
      [] s = "bald" ->
            {QRecord(l, <<>>, <<>>, m) : l \in BOOLEAN, m \in {<<>>, <<1>>, <<2>>}}
      [] s = "hybrid" ->
            {QRecord(l, <<>>, e, m) : l \in BOOLEAN, e \in {<<0>>, <<2>>},
                                      m \in {<<>>, <<1>>, <<2>>}}

InitQuery ==
    /\ strategy \in Strategies
    /\ \E k \in 1..MaxPool : q_records \in [0..(k - 1) -> QRecords(strategy)]
    /\ q_n \in 1..(MaxPool + 1)
    /\ q_lambda \in (IF strategy = "hybrid" THEN {0, 50, 100} ELSE {0})
    /\ q_result = NoResult
    /\ pc = "query" /\ iteration = 0 /\ batch_indices = <<>> /\ metadata_json = NoFile /\ IdlePersist
    /\ IdleStore /\ IdleStop

Sampled(results) ==
    /\ q_result' \in results
    /\ pc' = "returned"
    /\ UNCHANGED <<records, call, modelVars, stopVars, q_records, q_n, q_lambda,
                   iteration, strategy, batch_indices, metadata_json, persistVars>>

LeastConfidence ==
    /\ pc = "query" /\ strategy = "least_confidence"
    /\ Sampled(least_confidence_sampling(q_records, q_n))

Coreset ==
    /\ pc = "query" /\ strategy = "coreset"
    /\ Sampled(greedy_coreset_sampling(q_records, q_n))

Bald ==
    /\ pc = "query" /\ strategy = "bald"
    /\ Sampled(bald_sampling(q_records, q_n))

Hybrid ==
    /\ pc = "query" /\ strategy = "hybrid"
    /\ Sampled(hybrid_coreset_bald_sampling(q_records, q_n, q_lambda))

NextQuery == LeastConfidence \/ Coreset \/ Bald \/ Hybrid

SpecQuery == InitQuery /\ [][NextQuery]_vars

(***************************************************************************)
(* A fresh Confidence Model on a store seeded by its caller                *)
(***************************************************************************)
FitPool == 3        \* feedback texts in the store

\* Label dicts passed to apply_labels (bare strings, two classes in every
\* dimension, as test_model_confidence_updater.py does).
SeedLabelInputs ==
    {[d \in DimSet |-> RawLabel(IF d = Dims[1] THEN "high" ELSE "medium")],
     [d \in DimSet |-> RawLabel(IF d = Dims[1] THEN "low" ELSE "high")]}

\* Proposals passed to mark_as_labeled: "high" everywhere; "low" in the
\* first dimension and "high" in the others; "low" in the first dimension
\* and no label in the others.
SeedProposal(labels) ==
    DimensionLabelProposal(labels, [d \in DOMAIN labels |-> 9], <<>>, <<>>,
                           "test", "test-model")

SeedProposalInputs ==
    {SeedProposal([d \in DimSet |-> LabelValue("high")]),
     SeedProposal([d \in DimSet |-> LabelValue(IF d = Dims[1] THEN "low" ELSE "high")]),
     SeedProposal([d \in {Dims[1]} |-> LabelValue("low")])}

InitFit ==
    /\ records = [idx \in 0..(FitPool - 1) |-> NewRecord(idx, {})]
    /\ is_fitted = NewModel.is_fitted
    /\ vectorizer = NewModel.vectorizer
    /\ models = NewModel.models
    /\ call = Call("init", None, FALSE, {}, {})
    /\ IdleStop /\ IdleQuery
    /\ pc = "seeding" /\ iteration = 0 /\ strategy = None /\ batch_indices = <<>>
    /\ metadata_json = NoFile /\ IdlePersist

fitFrame == <<stopVars, queryVars, iteration, strategy, batch_indices,
              metadata_json, loaded, snapshots>>

FitApplyLabels ==
    /\ pc = "seeding" /\ call.raised = None
    /\ \E idx \in unlabeled_indices(records), labels \in SeedLabelInputs :
          records' = apply_labels(records, idx, labels,
                                  [d \in DOMAIN labels |-> 10], <<>>, <<>>, None, None)
    /\ call' = Call("apply_labels", None, FALSE, {}, {})
    /\ UNCHANGED <<modelVars, pc, last_predictions, fitFrame>>

FitMarkAsLabeled ==
    /\ pc = "seeding" /\ call.raised = None
    /\ \E idx \in unlabeled_indices(records), proposal \in SeedProposalInputs :
          records' = mark_as_labeled(records, <<idx>>, <<proposal>>)
    /\ call' = Call("mark_as_labeled", None, FALSE, {}, {})
    /\ UNCHANGED <<modelVars, pc, last_predictions, fitFrame>>

\* The first fit of the model.
FitFresh ==
    /\ pc = "seeding" /\ call.raised = None
    /\ LET res == fit(records, Model) IN
       /\ is_fitted' = res.m.is_fitted
       /\ vectorizer' = res.m.vectorizer
       /\ models' = res.m.models
       /\ call' = Call("fit", res.raised, FALSE, {}, {})
    /\ pc' = "fitted"
    /\ UNCHANGED <<records, last_predictions, fitFrame>>

FitUpdate ==
    /\ pc = "fitted" /\ call.raised = None
    /\ \E probs \in ProbInputs(DOMAIN records), differ \in BOOLEAN :
          LET res == update_unlabeled_confidences(records, Model, probs, differ) IN
          /\ records' = res.records
          /\ call' = Call("update_unlabeled_confidences", res.raised, FALSE, {}, {})
    /\ pc' = "updated"
    /\ UNCHANGED <<modelVars, last_predictions, fitFrame>>

\* predict(texts) on a non-empty list of texts, before the fit or after it.
FitPredict ==
    /\ call.raised = None /\ call.op # "predict"
    /\ \E up \in BOOLEAN, differ \in BOOLEAN :
          LET res == predict(Model, StopItems, up, differ) IN
          /\ last_predictions' = res
          /\ call' = Call("predict", res.raised, FALSE, {}, {})
    /\ UNCHANGED <<records, modelVars, pc, fitFrame>>

NextFit == FitApplyLabels \/ FitMarkAsLabeled \/ FitFresh \/ FitUpdate \/ FitPredict

SpecFit == InitFit /\ [][NextFit]_vars

(***************************************************************************)
(* The Label Store saved, loaded and resumed                               *)
(***************************************************************************)
MaxSnapshots == 1   \* snapshots added to the store's prediction history

\* Oracle outcomes of the labeling calls: a failed call, a proposal without
\* evidence, a proposal with evidence.
PersistOutcomes ==
    {[failed |-> TRUE, raw |-> NotJson], [failed |-> FALSE, raw |-> PartialResponse],
     [failed |-> FALSE, raw |-> FullResponse]}

\* A record of the file without some of its keys.
RecordWithout(r, keys) == [k \in DOMAIN r \ keys |-> r[k]]

\* Content that no save wrote: a top-level object without a records list,
\* and a list whose record lacks its labeled field.
MalformedFiles ==
    {ObjectFile(<<>>, <<>>),
     WrittenFile([i \in {0} |->
                    RecordWithout(_make_json_serializable(NewRecord(0, {})), {"labeled"})])}

InitPersist ==
    /\ \E seedIdx \in SeedSets : records = PostInit(seedIdx)
    /\ is_fitted = NewModel.is_fitted
    /\ vectorizer = NewModel.vectorizer
    /\ models = NewModel.models
    /\ call = Call("init", None, FALSE, {}, {})
    /\ IdleStop /\ IdleQuery
    /\ pc = "store" /\ iteration = 0 /\ strategy = None /\ batch_indices = <<>>
    /\ metadata_json = NoFile /\ IdlePersist

PersistLabelSeed == pc = "store" /\ LabelSeed
PersistMarkAsLabeled == pc = "store" /\ MarkAsLabeled(1, FALSE)
PersistLabelBatch == pc = "store" /\ LabelBatch(PersistOutcomes, 1, FALSE)

AddSnapshot ==
    /\ pc = "store" /\ Len(snapshots) < MaxSnapshots
    /\ snapshots' = add_snapshot(snapshots, Snapshot(1, PatAAB, PatAAA))
    /\ call' = Call("add_snapshot", None, FALSE, {}, {})
    /\ UNCHANGED <<records, modelVars, stopVars, queryVars, pc, iteration, strategy,
                   batch_indices, metadata_json, last_predictions, loaded>>

Save ==
    /\ pc = "store"
    /\ LET res == save(records) IN
       /\ metadata_json' = res.file
       /\ call' = Call("save", res.raised, FALSE, {}, {})
    /\ pc' = "saved"
    /\ UNCHANGED <<records, modelVars, stopVars, queryVars, iteration, strategy,
                   batch_indices, persistVars>>

\* The file as something else than save left it.
ForeignFile ==
    /\ pc = "store"
    /\ metadata_json' \in MalformedFiles
    /\ pc' = "saved"
    /\ UNCHANGED <<records, call, modelVars, stopVars, queryVars, iteration, strategy,
                   batch_indices, persistVars>>

Load ==
    /\ pc = "saved"
    /\ loaded' = load(metadata_json)
    /\ call' = Call("load", loaded'.raised, FALSE, {}, {})
    /\ pc' = "loaded"
    /\ UNCHANGED <<records, modelVars, stopVars, queryVars, iteration, strategy,
                   batch_indices, metadata_json, last_predictions, snapshots>>

\* The run resumed on the store load returned from the file save wrote.
Resumable ==
    /\ pc = "loaded" /\ loaded.returned
    /\ metadata_json = save(records).file

ResumeFit ==
    /\ Resumable
    /\ LET res == fit(loaded.records, Model) IN
       /\ is_fitted' = res.m.is_fitted
       /\ vectorizer' = res.m.vectorizer
       /\ models' = res.m.models
       /\ call' = Call("fit", res.raised, FALSE, {}, {})
    /\ pc' = "resumed"
    /\ UNCHANGED <<records, stopVars, queryVars, iteration, strategy, batch_indices,
                   metadata_json, persistVars>>

ResumeSelect ==
    /\ Resumable
    /\ \E s \in Strategies, n \in 1..MaxBatch :
       \E res \in select_batch_indices(loaded.records, 1, s, n) :
          /\ strategy' = s /\ q_n' = n /\ q_result' = res
          /\ call' = Call("select_batch_indices", res.raised, FALSE, {}, {})
    /\ pc' = "resumed"
    /\ UNCHANGED <<records, modelVars, stopVars, q_records, q_lambda, iteration,
                   batch_indices, metadata_json, persistVars>>

NextPersist ==
    \/ PersistLabelSeed
    \/ PersistMarkAsLabeled
    \/ PersistLabelBatch
    \/ AddSnapshot
    \/ Save
    \/ ForeignFile
    \/ Load
    \/ ResumeFit
    \/ ResumeSelect

SpecPersist == InitPersist /\ [][NextPersist]_vars

(***************************************************************************)
(* Properties of the sampling strategies                                   *)
(***************************************************************************)
Selected == q_result.selected

\* The score the Least-confidence strategy ranks an unlabeled item by.
MinConfidence(r) ==
    IF r.confidences = <<>> THEN 0
    ELSE MinOf({r.confidences[d] : d \in DOMAIN r.confidences})

\* C2: on a list with an unlabeled record, least_confidence_sampling returns
\* min(n, number of unlabeled) indices, none labeled, by non-decreasing
\* minimum confidence.
C2_LeastConfidenceContract ==
    (pc = "returned" /\ strategy = "least_confidence" /\ Unlabeled(q_records) # {})
        => /\ q_result.raised = None
           /\ Len(Selected) = Min(q_n, Cardinality(Unlabeled(q_records)))
           /\ \A k \in 1..Len(Selected) : ~q_records[Selected[k]].labeled
           /\ \A k \in 1..(Len(Selected) - 1) :
                 MinConfidence(q_records[Selected[k]])
                    <= MinConfidence(q_records[Selected[k + 1]])

\* The strategy returned exactly min(n, number of unlabeled) indices, all of
\* them unlabeled.
ReturnsUnlabeledBatch ==
    /\ q_result.raised = None
    /\ Len(Selected) = Min(q_n, Cardinality(Unlabeled(q_records)))
    /\ \A k \in 1..Len(Selected) : ~q_records[Selected[k]].labeled

\* C17: on a list with a labeled and an unlabeled record,
\* greedy_coreset_sampling returns without raising min(n, number of
\* unlabeled) distinct unlabeled indices, by non-increasing distance to the
\* nearest labeled record.
C17_CoresetContract ==
    (/\ pc = "returned" /\ strategy = "coreset"
     /\ Labeled(q_records) # {} /\ Unlabeled(q_records) # {})
        => /\ ReturnsUnlabeledBatch
           /\ \A j, k \in 1..Len(Selected) : j # k => Selected[j] # Selected[k]
           /\ \A k \in 1..(Len(Selected) - 1) :
                 MinDistance(q_records, Selected[k])
                    >= MinDistance(q_records, Selected[k + 1])

\* C18: bald_sampling returns min(n, number of unlabeled) indices, all
\* unlabeled, whether or not the unlabeled records carry MC samples.
C18_BaldContract ==
    (pc = "returned" /\ strategy = "bald") => ReturnsUnlabeledBatch

\* C19: hybrid_coreset_bald_sampling never returns the index of a labeled
\* record, for every lambda and every n.
C19_HybridNeverLabeled ==
    (pc = "returned" /\ strategy = "hybrid")
        => /\ q_result.raised = None
           /\ \A k \in 1..Len(Selected) : ~q_records[Selected[k]].labeled

\* C20: with lambda = 1.0, hybrid_coreset_bald_sampling returns a list that
\* greedy_coreset_sampling returns on the same records and n.
C20_HybridLambdaOneIsCoreset ==
    (pc = "returned" /\ strategy = "hybrid" /\ q_lambda = 100)
        => q_result \in greedy_coreset_sampling(q_records, q_n)

\* C21: with lambda = 0.0, hybrid_coreset_bald_sampling returns a list that
\* bald_sampling returns on the same records and n.
C21_HybridLambdaZeroIsBald ==
    (pc = "returned" /\ strategy = "hybrid" /\ q_lambda = 0)
        => q_result \in bald_sampling(q_records, q_n)

StrategyResults ==
    CASE strategy = "least_confidence" -> least_confidence_sampling(q_records, q_n)
      [] strategy = "coreset" -> greedy_coreset_sampling(q_records, q_n)
      [] strategy = "bald" -> bald_sampling(q_records, q_n)
      [] strategy = "hybrid" -> hybrid_coreset_bald_sampling(q_records, q_n, q_lambda)

UnlabeledScore ==
    [i \in Unlabeled(q_records) |->
        CASE strategy = "least_confidence" -> LCScore(q_records[i])
          [] strategy = "coreset" ->
                IF Labeled(q_records) = {} THEN 0 ELSE MinDistance(q_records, i)
          [] strategy = "bald" -> BaldRaw(q_records, i)
          [] strategy = "hybrid" -> HybridScore(q_records, q_lambda, i)]

LowestUnlabeled ==
    [k \in 1..Min(q_n, Cardinality(Unlabeled(q_records))) |->
        Nth(Unlabeled(q_records), k)]

\* C23: a strategy has one possible result on given inputs; among unlabeled
\* records of equal score the lower index comes first; and when every
\* unlabeled record has the same score the result is the n smallest
\* unlabeled indices in ascending order.
C23_DeterministicTieBreak ==
    (pc = "returned" /\ Unlabeled(q_records) # {})
        => /\ Cardinality(StrategyResults) = 1
           /\ \A j, k \in 1..Len(Selected) :
                 (/\ j < k
                  /\ Selected[j] \in Unlabeled(q_records)
                  /\ Selected[k] \in Unlabeled(q_records)
                  /\ UnlabeledScore[Selected[j]] = UnlabeledScore[Selected[k]])
                     => Selected[j] < Selected[k]
           /\ (\A i, j \in Unlabeled(q_records) : UnlabeledScore[i] = UnlabeledScore[j])
                 => q_result = Returns(LowestUnlabeled)

(***************************************************************************)
(* Properties of the Label Store and the labeling round                    *)
(***************************************************************************)
\* C1: after label_batch, every index of the batch that was unlabeled before
\* the call and whose oracle response could not be parsed is still unlabeled,
\* whatever its position in the batch and the other responses.
C1_UnparsedStaysUnlabeled ==
    call.op = "label_batch" => \A i \in call.unparsed : ~records[i].labeled

\* C5: mark_as_labeled called with lists of different lengths ends with a
\* length-mismatch error instead of returning normally.
C5_LengthMismatchRaises ==
    (call.op = "mark_as_labeled" /\ call.mismatch) => call.raised # None

\* C6: in every reachable state of the store, a record with labeled = true
\* has a non-empty labels mapping.
C6_LabeledHasLabels ==
    \A i \in DOMAIN records : records[i].labeled => records[i].labels # <<>>

\* C7: label_batch never ends with an exception, whatever the oracle
\* responses of the batch are.
C7_LabelBatchNeverRaises ==
    call.op = "label_batch" => call.raised = None

\* C8: after label_batch, every index of the batch that was unlabeled before
\* the call and whose oracle call failed is still unlabeled and has no
\* labels, confidences or provenance.
C8_FailedCallSkipped ==
    call.op = "label_batch" =>
        \A i \in call.failed :
            /\ ~records[i].labeled
            /\ records[i].labels = <<>>
            /\ records[i].confidences = <<>>
            /\ records[i].source = None
            /\ records[i].model_id = None

(***************************************************************************)
(* Properties of the curation loop                                         *)
(***************************************************************************)
\* C9: in a run of the curation loop, no step changes the labels or the
\* confidences of a record that is already labeled.
C9_LabeledFrozen ==
    [][\A i \in DOMAIN records :
          records[i].labeled =>
              /\ records'[i].labels = records[i].labels
              /\ records'[i].confidences = records[i].confidences]_vars

\* The batch selected last was empty, which ended the loop.
EmptyBatchExit ==
    pc = "exit" /\ call.op = "select_batch_indices" /\ batch_indices = <<>>

\* C11: the loop is left only when done() holds, when the selected batch is
\* empty or when the Stopping Controller returned stopped, and the selected
\* batch is empty only when no unlabeled item remains.
C11_LoopExits ==
    /\ pc = "exit" => (done(records) \/ update_result.stopped \/ EmptyBatchExit)
    /\ EmptyBatchExit => unlabeled_indices(records) = {}

\* The run was cut off by the bound on the rounds.
RoundsExhausted ==
    pc = "while" /\ ~done(records) /\ iteration = MaxIterations

\* C12: when every oracle response is a well-formed proposal, a run
\* eventually reaches the end of the function, after the final save, without
\* an exception, with done() true or the Stopping Controller stopped.
C12_RunCompletes ==
    <>(\/ pc = "done" /\ (done(records) \/ update_result.stopped)
       \/ RoundsExhausted)

\* C13: whenever a round has completed, and at the end of the run, the file
\* metadata.json is written and holds the labeled flag and the labels of
\* every record as they are in the store.
C13_PersistedEveryRound ==
    ((pc = "while" /\ iteration >= 1) \/ pc = "done") =>
        /\ metadata_json.state = "written"
        /\ \A i \in DOMAIN records :
              /\ metadata_json.records[i].labeled = records[i].labeled
              /\ metadata_json.records[i].labels = SerializableLabels(records[i].labels)

(***************************************************************************)
(* Properties of the store under calls on the store and the model          *)
(***************************************************************************)
\* C10: no call of apply_labels, mark_as_labeled, label_batch, fit,
\* update_unlabeled_confidences or a sampling strategy turns the labeled flag
\* of a record from true to false.
C10_LabeledMonotonic ==
    [][\A i \in DOMAIN records : records[i].labeled => records'[i].labeled]_vars

\* C10 witness: a record labeled by apply_labels was labeled again by
\* mark_as_labeled, and a later update_unlabeled_confidences wrote the
\* confidences of a record that is still unlabeled.
C10_Witness ==
    /\ \E i \in DOMAIN records :
          /\ records[i].labeled
          /\ records[i].label_source = "seed" /\ records[i].source = "test"
    /\ \E j \in DOMAIN records :
          ~records[j].labeled /\ records[j].confidence_source = "multinomial_nb"

(***************************************************************************)
(* Properties of fit and predict on a fresh Confidence Model               *)
(***************************************************************************)
\* The label values the labeled records carry in dimension d.
LabelValues(d) == {records[i].labels[d].value : i \in DimRecords(records, d)}
Degenerate(d) == Cardinality(LabelValues(d)) < 2

\* Some record is labeled and every label of the store is a LabelValue.
LabeledByProposals ==
    /\ labeled_indices(records) # {}
    /\ \A i \in labeled_indices(records) :
          \A d \in DOMAIN records[i].labels : records[i].labels[d].lv

\* C24: on a store with a labeled record, fit on a fresh model does not
\* raise, fits exactly the dimensions with two or more distinct label
\* values, and when a dimension has fewer predict returns None for it on
\* every text and a trained class for the other dimensions.
C24_DegenerateDimensionSkipped ==
    (pc \in {"fitted", "updated"} /\ LabeledByProposals)
        => /\ call.op = "fit" => call.raised = None
           /\ call.op \in {"fit", "predict"}
                 => \A d \in DimSet : is_fitted[d] <=> ~Degenerate(d)
           /\ (call.op = "predict" /\ \E d \in DimSet : Degenerate(d))
                 => /\ last_predictions.raised = None
                    /\ \A d \in DimSet, i \in StopItems :
                          IF Degenerate(d) THEN last_predictions.preds[d][i] = None
                          ELSE last_predictions.preds[d][i] \in LabelValues(d)

\* C25: predict does not raise NotFittedError, and where it returns, every
\* unfitted dimension has the prediction None for every text.
C25_PredictUnfittedReturnsNone ==
    call.op = "predict"
        => /\ last_predictions.raised # "NotFittedError"
           /\ last_predictions.raised = None
                 => \A d \in DimSet, i \in StopItems :
                       ~is_fitted[d] => last_predictions.preds[d][i] = None

\* Every labeled record was labeled through apply_labels and every dimension
\* has two or more classes.
SeededByApplyLabels ==
    /\ labeled_indices(records) # {}
    /\ \A i \in labeled_indices(records) :
          records[i].label_source = "seed" /\ DOMAIN records[i].labels = DimSet
    /\ \A d \in DimSet : ~Degenerate(d)

\* C26: on a store seeded through apply_labels with two classes per
\* dimension, fit completes with a fitted dimension and
\* update_unlabeled_confidences gives every unlabeled record confidences and
\* the confidence source "multinomial_nb".
C26_FitAcceptsAppliedLabels ==
    (pc \in {"fitted", "updated"} /\ SeededByApplyLabels)
        => /\ call.op = "fit"
                 => call.raised = None /\ \E d \in DimSet : is_fitted[d]
           /\ call.op = "update_unlabeled_confidences"
                 => /\ call.raised = None
                    /\ \A i \in unlabeled_indices(records) :
                          /\ records[i].confidences # <<>>
                          /\ records[i].confidence_source = "multinomial_nb"

(***************************************************************************)
(* Properties of save and load                                             *)
(***************************************************************************)
\* load has run on the file that save leaves for the store's records.
LoadedOwnFile ==
    pc = "loaded" /\ call.op = "load" /\ metadata_json = save(records).file

\* C27: load(save(state)) succeeds and has the same labeled/unlabeled
\* partition and, for every index, the same label values as the state.
C27_RoundTripLabels ==
    LoadedOwnFile
        => /\ save(records).raised = None
           /\ loaded.returned
           /\ DOMAIN loaded.records = DOMAIN records
           /\ \A i \in DOMAIN records :
                 /\ loaded.records[i].labeled = records[i].labeled
                 /\ get_labels_as_dict(loaded.records, i) = get_labels_as_dict(records, i)

\* C28: save does not raise, and load(save(x)) has the same confidences,
\* rationale, evidence, source and model_id for every record and the same
\* prediction history as x.
C28_RoundTripAllFields ==
    LoadedOwnFile
        => /\ save(records).raised = None
           /\ loaded.returned
           /\ DOMAIN loaded.records = DOMAIN records
           /\ \A i \in DOMAIN records :
                 /\ loaded.records[i].confidences = records[i].confidences
                 /\ loaded.records[i].rationale = records[i].rationale
                 /\ loaded.records[i].evidence = records[i].evidence
                 /\ loaded.records[i].source = records[i].source
                 /\ loaded.records[i].model_id = records[i].model_id
           /\ loaded.snapshots = snapshots

\* C29: on the reloaded store fit ends without error with the model it
\* gives on the original store, and a strategy returns a list it returns on
\* the original store.
C29_ResumeOnReloaded ==
    pc = "resumed"
        => /\ call.raised = None
           /\ call.op = "fit" => Model = fit(records, NewModel).m
           /\ call.op = "select_batch_indices"
                 => q_result \in select_batch_indices(records, 1, strategy, q_n)

\* C30: on content that is malformed or partial load raises and returns no
\* store.
C30_MalformedRejected ==
    (pc = "loaded" /\ call.op = "load"
     /\ metadata_json \in MalformedFiles \cup {TruncatedFile})
        => loaded.raised # None /\ ~loaded.returned

(***************************************************************************)
(* Properties of the start of a run                                        *)
(***************************************************************************)
\* The run stands before its first round: the store is built and the seeds
\* are marked (lines 171-181), no round has changed a record yet.
BeforeFirstRound == pc = "while" /\ iteration = 0

\* C31: after the initialization of the loop exactly the records at the seed
\* indices are labeled, each with the labels seeded_seed_proposal returns for
\* its index and with source "seed"; every other record is unlabeled with
\* empty labels.
C31_SeedsLabeledAtStart ==
    BeforeFirstRound
        => \A i \in DOMAIN records :
              IF records[i].seed_proposal # <<>>
              THEN /\ records[i].labeled
                   /\ records[i].labels = seeded_seed_proposal(i).labels
                   /\ get_labels_as_dict(records, i)
                         = [d \in DimSet |-> LABEL_CHOICES[d][(i % Len(LABEL_CHOICES[d])) + 1]]
                   /\ records[i].source = "seed"
              ELSE /\ ~records[i].labeled
                   /\ records[i].labels = <<>>

C31_Witness ==
    /\ BeforeFirstRound
    /\ \E i, j \in DOMAIN records :
          /\ records[i].seed_proposal # <<>> /\ records[i].labeled
          /\ records[i].source = "seed"
          /\ records[j].seed_proposal = <<>> /\ ~records[j].labeled

(***************************************************************************)
(* The strategy schedule of the hybrid run: select_batch_indices called    *)
(* round after round with strategy "hybrid" on one store.  iteration is    *)
(* the round t, q_result what the call gave, q_lambda the lambda_t line    *)
(* 146 computed in the last round after the warm-up.                       *)
(***************************************************************************)
MaxRounds == 12         \* rounds of the schedule
ScheduleSeedSets == SUBSET (0..(LoopPool - 1))

InitSchedule ==
    /\ strategy = "hybrid"
    /\ q_n \in 1..MaxBatch
    /\ \E seedIdx \in ScheduleSeedSets :
          records = MarkSeeds([idx \in 0..(LoopPool - 1) |-> NewRecord(idx, seedIdx)], seedIdx)
    /\ is_fitted = NewModel.is_fitted
    /\ vectorizer = NewModel.vectorizer
    /\ models = NewModel.models
    /\ call = Call("init", None, FALSE, {}, {})
    /\ IdleStop
    /\ q_records = <<>> /\ q_lambda = 0 /\ q_result = NoResult
    /\ pc = "schedule" /\ iteration = 0 /\ batch_indices = <<>>
    /\ metadata_json = NoFile /\ IdlePersist

\* Round iteration + 1: select_batch_indices(metadata, iteration, "hybrid", n).
ScheduleRound ==
    /\ pc = "schedule"
    /\ iteration < MaxRounds
    /\ iteration' = iteration + 1
    /\ \E res \in select_batch_indices(records, iteration + 1, strategy, q_n) :
          /\ q_result' = res
          /\ call' = Call("select_batch_indices", res.raised, FALSE, {}, {})
    /\ q_lambda' = IF iteration + 1 <= CORESET_WARMUP_ITERS
                   THEN q_lambda
                   ELSE compute_lambda(iteration + 1)
    /\ UNCHANGED <<records, modelVars, stopVars, q_records, q_n, pc, strategy,
                   batch_indices, metadata_json, persistVars>>

NextSchedule == ScheduleRound

SpecSchedule == InitSchedule /\ [][NextSchedule]_vars

(***************************************************************************)
(* Properties of the strategy schedule                                     *)
(***************************************************************************)
\* max(lambda_min, 1 - (t - warmup) * decay), in hundredths.
ScheduleLambda(t) ==
    LET linear == 100 - (t - CORESET_WARMUP_ITERS) * LAMBDA_DECAY
    IN IF linear < MIN_LAMBDA THEN MIN_LAMBDA ELSE linear

\* C32: with the hybrid strategy the rounds t = 1..warmup select by coreset
\* sampling and every round t > warmup selects by hybrid sampling with
\* lambda(t) = max(lambda_min, 1 - (t - warmup) * decay); lambda(t) lies in
\* [lambda_min, 1], does not increase from one round to the next and stays at
\* lambda_min once it has reached it.
C32_HybridSchedule ==
    /\ []((pc = "schedule" /\ iteration >= 1)
            => IF iteration <= CORESET_WARMUP_ITERS
               THEN q_result \in greedy_coreset_sampling(StoreView(records), q_n)
               ELSE /\ q_lambda = ScheduleLambda(iteration)
                    /\ MIN_LAMBDA <= q_lambda /\ q_lambda <= 100
                    /\ q_result \in hybrid_coreset_bald_sampling(
                                        StoreView(records), q_n, ScheduleLambda(iteration)))
    /\ [][(pc = "schedule" /\ iteration > CORESET_WARMUP_ITERS)
            => /\ q_lambda' <= q_lambda
               /\ q_lambda = MIN_LAMBDA => q_lambda' = MIN_LAMBDA]_vars

C32_Witness ==
    /\ pc = "schedule" /\ strategy = "hybrid"
    /\ iteration = MaxRounds
    /\ q_lambda = MIN_LAMBDA
    /\ 100 - (iteration - 1 - CORESET_WARMUP_ITERS) * LAMBDA_DECAY < MIN_LAMBDA

(***************************************************************************)
(* Properties of reset                                                     *)
(***************************************************************************)
ResultsDepth == 3       \* updates fed to the two controllers compared

\* The results of feeding the snapshots of seq, in order, to the controller c.
RECURSIVE UpdateResults(_, _, _)
UpdateResults(cfg, c, seq) ==
    IF seq = <<>> THEN <<>>
    ELSE LET res == update(cfg, c, Head(seq)) IN
         <<[raised |-> res.raised, stopped |-> res.stopped]>>
            \o (IF res.raised # None THEN <<>> ELSE UpdateResults(cfg, res.c, Tail(seq)))

\* C33: after reset() the history is empty and the stability counter is 0,
\* and every sequence of updates gives the results it gives on a newly
\* constructed controller with the same config and dimensions.
C33_ResetIsFresh ==
    call.op = "reset"
        => /\ prediction_history = <<>>
           /\ stable_counter = 0
           /\ \A seq \in SeqsUpTo(SnapshotInputs, ResultsDepth) :
                 UpdateResults(config, Controller, seq)
                    = UpdateResults(config, NewController, seq)

C33_Witness ==
    /\ call.op = "reset"
    /\ prediction_history = <<>> /\ stable_counter = 0
    /\ \E seq \in SeqsUpTo(SnapshotInputs, ResultsDepth) :
          /\ Len(seq) = ResultsDepth
          /\ UpdateResults(config, Controller, seq)[Len(seq)].stopped

(***************************************************************************)
(* Properties of min_iterations                                            *)
(***************************************************************************)
\* C38: update never returns stopped before min_iterations snapshots have
\* been fed since construction or the last reset, for every StoppingConfig,
\* also when min_iterations is larger than window_size + patience - 1.
C38_NoStopBeforeMinIterations ==
    (call.op = "update" /\ update_result.stopped)
        => Len(prediction_history) >= config.min_iterations

(***************************************************************************)
(* Label Store under batch calls whose arguments are kept: call holds, with*)
(* the operation and its exception, the index list and the second list (the*)
(* proposals of mark_as_labeled, the oracle outcomes of label_batch, one   *)
(* per index in the order of the batch).                                   *)
(***************************************************************************)
OtherProposal ==
    DimensionLabelProposal([d \in DimSet |-> LabelValue("low")],
                           [d \in DimSet |-> 7], [d \in DimSet |-> "seen"],
                           <<>>, "human", "annotator")

BatchProposals == {TestProposal, OtherProposal}

BatchOutcomes ==
    {[failed |-> TRUE, raw |-> NotJson], [failed |-> FALSE, raw |-> NotJson],
     [failed |-> FALSE, raw |-> PartialResponse], [failed |-> FALSE, raw |-> FullResponse]}

CallWith(op, raised, indices, inputs) ==
    [op |-> op, raised |-> raised, mismatch |-> FALSE, unparsed |-> {}, failed |-> {},
     indices |-> indices, inputs |-> inputs]

InitBatch ==
    /\ \E seedIdx \in SeedSets : records = PostInit(seedIdx)
    /\ is_fitted = NewModel.is_fitted
    /\ vectorizer = NewModel.vectorizer
    /\ models = NewModel.models
    /\ call = CallWith("init", None, <<>>, <<>>)
    /\ IdleStop /\ IdleQuery
    /\ pc = "batch" /\ iteration = 0 /\ strategy = None /\ batch_indices = <<>>
    /\ metadata_json = NoFile /\ IdlePersist

BatchMarkAsLabeled ==
    \E indices \in Batches(DOMAIN records, MaxBatch),
       proposals \in SeqsUpTo(BatchProposals, MaxBatch) :
        /\ records' = mark_as_labeled(records, indices, proposals)
        /\ call' = CallWith("mark_as_labeled", None, indices, proposals)
        /\ UNCHANGED <<modelVars, stopVars, queryVars, loopVars>>

BatchLabelBatch ==
    \E indices \in Batches(DOMAIN records, MaxBatch) :
    \E outcomes \in [1..Len(indices) -> BatchOutcomes] :
        LET res == label_batch(records, indices, outcomes, MODEL_ID) IN
        /\ records' = res.records
        /\ call' = CallWith("label_batch", res.raised, indices, outcomes)
        /\ UNCHANGED <<modelVars, stopVars, queryVars, loopVars>>

NextBatch == BatchMarkAsLabeled \/ BatchLabelBatch

SpecBatch == InitBatch /\ [][NextBatch]_vars

(***************************************************************************)
(* Properties of the batch calls                                           *)
(***************************************************************************)
\* C34: for lists of equal length, after mark_as_labeled(indices, proposals)
\* every index of indices is labeled and get_labels_as_dict gives the label
\* values of the proposal paired with it; the records of the other indices
\* are unchanged.
C34_MarkAsLabeledPairs ==
    [][(call'.op = "mark_as_labeled" /\ Len(call'.indices) = Len(call'.inputs))
        => LET indices == call'.indices
               proposals == call'.inputs
           IN /\ \A k \in 1..Len(indices) :
                    /\ records'[indices[k]].labeled
                    /\ get_labels_as_dict(records', indices[k])
                          = [d \in DOMAIN proposals[k].labels |-> proposals[k].labels[d].value]
              /\ \A i \in DOMAIN records \ {indices[k] : k \in 1..Len(indices)} :
                    records'[i] = records[i]]_vars

C34_Witness ==
    /\ call.op = "mark_as_labeled"
    /\ Len(call.indices) = MaxBatch /\ Len(call.inputs) = MaxBatch
    /\ call.inputs[1] # call.inputs[2]
    /\ \A k \in 1..MaxBatch :
          /\ records[call.indices[k]].labeled
          /\ get_labels_as_dict(records, call.indices[k])
                = SerializableLabels(call.inputs[k].labels)

\* C35: after label_batch(indices) every index that became labeled in the
\* call carries the labels, confidences and provenance parsed from the
\* oracle response to its own text, never those of the response for another
\* index of the batch, also when some responses of the batch did not parse.
C35_OwnResponseOnly ==
    [][call'.op = "label_batch"
        => \A k \in 1..Len(call'.indices) :
              LET idx == call'.indices[k]
                  own == LabelItem(LLMOracle_label(call'.inputs[k]), MODEL_ID)
              IN (~records[idx].labeled /\ records'[idx].labeled)
                    => /\ own.r = "ok"
                       /\ records'[idx].labels = own.proposal.labels
                       /\ records'[idx].confidences = own.proposal.confidences
                       /\ records'[idx].rationale = own.proposal.rationale
                       /\ records'[idx].evidence = own.proposal.evidence
                       /\ records'[idx].source = own.proposal.source
                       /\ records'[idx].model_id = own.proposal.model_id]_vars

(***************************************************************************)
(* Properties of repeated fits                                             *)
(***************************************************************************)
\* C36: after each fit on the same model, is_fitted[dim] is true exactly
\* when the labeled records of the store carry two or more distinct label
\* values for dim, and a fitted dimension's classifier is trained on exactly
\* the store's labeled records for dim; no flag and no classifier of an
\* earlier fit survives a fit whose store does not support it.
C36_RetrainedFromScratch ==
    (call.op = "fit" /\ call.raised = None)
        => \A d \in DimSet :
              /\ is_fitted[d] <=> ~Degenerate(d)
              /\ is_fitted[d] => /\ models[d].texts = DimRecords(records, d)
                                 /\ models[d].classes = LabelValues(d)

(***************************************************************************)
(* Properties of the shared feature transform                              *)
(***************************************************************************)
\* The last call handed the feature matrix of the shared vectorizer to the
\* classifiers of the fitted dimensions: predict on a non-empty list of texts
\* with a fitted vectorizer, or update_unlabeled_confidences with a fitted
\* dimension and an unlabeled record.
UsesClassifiers ==
    \/ call.op = "predict" /\ vectorizer.fitted
    \/ /\ call.op = "update_unlabeled_confidences"
       /\ \E d \in DimSet : is_fitted[d]
       /\ unlabeled_indices(records) # {}

\* C37: whenever predict or update_unlabeled_confidences uses the classifier
\* of a fitted dimension, the shared vectorizer is fitted on the set of texts
\* that classifier was trained with, also when the dimensions have different
\* sets of labeled records and when a later dimension of the same fit was
\* skipped for lack of label diversity.
C37_TransformMatchesClassifier ==
    UsesClassifiers
        => \A d \in DimSet : is_fitted[d] => vectorizer.texts = models[d].texts

(***************************************************************************)
(* Properties of the confidence update                                     *)
(***************************************************************************)
\* C39: update_unlabeled_confidences changes only the confidences entries of
\* the fitted dimensions and the confidence_source of unlabeled records:
\* every labeled record, the labeled flag, the labels and the text of every
\* record and the confidences entries of the unfitted dimensions stay as
\* they were.
C39_UpdateFrame ==
    [][(pc = "fitted" /\ pc' = "updated")
        => /\ DOMAIN records' = DOMAIN records
           /\ \A i \in DOMAIN records :
                 /\ records[i].labeled => records'[i] = records[i]
                 /\ records'[i] = [records[i] EXCEPT
                                     !.confidences = records'[i].confidences,
                                     !.confidence_source = records'[i].confidence_source]
                 /\ \A d \in DimSet :
                       ~is_fitted[d]
                          => /\ (d \in DOMAIN records'[i].confidences)
                                   <=> (d \in DOMAIN records[i].confidences)
                             /\ d \in DOMAIN records[i].confidences
                                   => records'[i].confidences[d] = records[i].confidences[d]]_vars

C39_Witness ==
    /\ pc = "updated" /\ call.op = "update_unlabeled_confidences" /\ call.raised = None
    /\ labeled_indices(records) # {}
    /\ \E d, e \in DimSet : is_fitted[d] /\ ~is_fitted[e]
    /\ \E i \in unlabeled_indices(records) :
          /\ records[i].confidence_source = "multinomial_nb"
          /\ \A d \in DimSet : (d \in DOMAIN records[i].confidences) <=> is_fitted[d]
====
